---- MODULE Spec2Model ----
(***************************************************************************)
(* Governed context store (server/src): the in-memory ContextStore, the    *)
(* policy engine and the request mediator (api/routes.rs), as a state      *)
(* machine of concurrent request tasks.                                    *)
(*                                                                         *)
(* Every step of a task is one critical section of the source: one region  *)
(* in which a std::sync::RwLock guard of the store is held, or one         *)
(* append to the audit log, or one publish on the event bus.  Computation  *)
(* on task-local values (RBAC, policy evaluation, sorting) is folded into  *)
(* the critical section that follows it.                                   *)
(*                                                                         *)
(* FileStore::apply_proposal, which holds its three write locks for the    *)
(* whole call, is modelled as the operator FileStore_apply_proposal.       *)
(*                                                                         *)
(* Not modelled: wall-clock timestamps (applied_at, modified_at,           *)
(* AuditEvent.timestamp), uuid event ids, the actor id recorded in audit   *)
(* and bus events, and the free-text fields of nodes other than content    *)
(* and description.                                                        *)
(***************************************************************************)
EXTENDS Integers, Sequences, FiniteSets, TLC

\* ------------------------------------------------------------------ bounds

\* Total number of requests the tasks may start in one behaviour.
MaxRequests == 3

\* Requests sent by the sequential client of SpecSeq.
MaxSeqRequests == 4

\* Concurrent request tasks (tokio workers serving one request each).
Tasks == {"t1", "t2"}

\* ------------------------------------------------------------ option values

None == <<>>
Some(x) == <<x>>
IsSome(o) == Len(o) = 1
Unwrap(o) == o[1]

\* ------------------------------------------------------------------- types

\* types/proposal.rs: ProposalStatus with its serde kebab-case names.
ProposalStatus == {"open", "accepted", "rejected", "withdrawn", "applied"}

\* types/proposal.rs: ReviewAction.
ReviewAction == {"accept", "reject", "request-changes"}

\* types/node.rs: NodeId::key(): "ns:id" when a namespace is present, else id.
\* Strings that are concatenated are sequences of tokens.
node_key(id) ==
    IF IsSome(id.namespace)
    THEN <<Unwrap(id.namespace), ":">> \o id.id
    ELSE id.id

\* sensitivity.rs: content_hash: SHA-256 of the content, as an injective tag.
content_hash(content) == <<"sha256", content>>

\* in_memory.rs / AppliedMetadata: format!("rev_{}", n).
rev_id(n) == <<"rev_", n>>

\* auth.rs: Role::includes: rank of a role in Admin > Applier > Reviewer >
\* Contributor > Reader.
rank(r) ==
    CASE r = "reader" -> 0
      [] r = "contributor" -> 1
      [] r = "reviewer" -> 2
      [] r = "applier" -> 3
      [] r = "admin" -> 4

includes(self, other) == rank(self) >= rank(other)

\* auth.rs: ActorContext::has_role.
has_role(actor, role) == \E r \in actor.roles : includes(r, role)

\* An rbac without hierarchy: any role passes any check.
require_role_any(actor, role) == actor.roles # {}

\* rbac.rs: require_role: TRUE when the check passes.
require_role(actor, role) == has_role(actor, role)

\* An rbac that lets agents through.
reject_agent_never(actor) == FALSE

\* rbac.rs: reject_agent: TRUE when the actor is rejected (the handler then
\* answers Forbidden("agents cannot ..."), the error ForbiddenAgent here).
reject_agent(actor) == actor.actor_type = "agent"

\* ------------------------------------------------------------------ inputs

NodeIdN1 == [id |-> <<"n1">>, namespace |-> None]
NodeIdN2 == [id |-> <<"n2">>, namespace |-> None]

\* A node as a client sends it inside a Create operation (metadata.version 1,
\* no content hash, no sensitivity), as in the store's tests.
NodeN1 ==
    [id |-> NodeIdN1, node_type |-> "goal", status |-> "accepted",
     content |-> "hello", description |-> None, version |-> 1,
     content_hash |-> None, sensitivity |-> None, modified_by |-> "test"]

OpCreateN1 == [type |-> "create", order |-> 1, node |-> NodeN1]
OpUpdateN1 ==
    [type |-> "update", order |-> 1, node_id |-> NodeIdN1,
     content |-> Some("world"), status |-> None]
OpUpdateN2 ==
    [type |-> "update", order |-> 2, node_id |-> NodeIdN2,
     content |-> Some("world"), status |-> None]

\* The operation lists a client may put in a proposal.
OperationLists ==
    { <<OpCreateN1>>, <<OpUpdateN1>>, <<OpCreateN1, OpUpdateN1>>,
      <<OpCreateN1, OpUpdateN2>> }

\* The ids a client may give a proposal, and the ids a request path may name
\* ("p9" is never created).
ProposalIds == {"p1"}
PathIds == ProposalIds \cup {"p9"}
ReviewIds == {"r1"}

\* AppliedMetadata a client may send inside the body of POST /proposals.
ClientApplied ==
    [applied_by |-> "client", applied_from_review_id |-> None,
     applied_from_proposal_id |-> "p1",
     applied_to_revision_id |-> rev_id(1), previous_revision_id |-> rev_id(0)]

\* The bodies of POST /proposals: the status is the client's choice and
\* AppliedMetadata is optional.
ProposalInputs ==
    [id : ProposalIds, status : {"accepted"},
     operations : OperationLists, applied : {None}]
    \cup
    [id : ProposalIds, status : {"open", "applied"},
     operations : {<<OpCreateN1>>}, applied : {None}]
    \cup
    [id : {"p1"}, status : {"applied"}, operations : {<<OpCreateN1>>},
     applied : {Some(ClientApplied)}]

\* The "status" member of a PATCH body: absent, a known name, or unknown.
PatchStatus ==
    {None} \cup {Some(s) : s \in ProposalStatus} \cup {Some("bogus")}

ReviewInputs ==
    [id : ReviewIds, proposal_id : ProposalIds, action : ReviewAction,
     reviewer_role : {None}]

\* auth.rs: ActorContext values: the auth-disabled default, an agent holding
\* every role, and a human reader.
DevUser == [actor_id |-> "dev-user", actor_type |-> "human", roles |-> {"admin"}]
AgentAdmin == [actor_id |-> "agent-1", actor_type |-> "agent", roles |-> {"admin"}]
HumanReader == [actor_id |-> "reader-1", actor_type |-> "human", roles |-> {"reader"}]
Actors == {DevUser, AgentAdmin, HumanReader}

\* policy.rs: PolicyConfig values the server may be started with.
MinApprovalsTwo == [type |-> "min_approvals", node_types |-> {}, min |-> 2]
ChangeWindowWeekdays ==
    [type |-> "change_window", allowed_days |-> {0, 1, 2, 3, 4},
     allowed_hour_start |-> 9, allowed_hour_end |-> 17]
PolicyConfigs == { <<>>, <<MinApprovalsTwo, ChangeWindowWeekdays>> }

\* ------------------------------------------------------------------- state

VARIABLES
    nodes,              \* InMemoryStore.nodes: key -> ContextNode
    proposals,          \* InMemoryStore.proposals: id -> Proposal
    reviews,            \* InMemoryStore.reviews: proposal id -> Vec<Review>
    revision_counter,   \* InMemoryStore.revision_counter
    audit_log,          \* InMemoryStore.audit_log
    bus,                \* events sent on the EventBus broadcast channel
    policies,           \* AppState.policies (immutable after start)
    pc,                 \* per task: the critical section it runs next
    req,                \* per task: the request it serves
    loc,                \* per task: the local variables of the handler
    resp,               \* the HTTP response sent by the step just taken
    nreq                \* requests started so far

vars ==
    <<nodes, proposals, reviews, revision_counter, audit_log, bus, policies,
      pc, req, loc, resp, nreq>>

store_vars == <<nodes, proposals, reviews, revision_counter>>

NoReq == [kind |-> "none"]
NoLoc == [kind |-> "none"]
NoResp == [task |-> "", status |-> 0, error |-> ""]

\* InMemoryStore::new, EventBus::new, and idle tasks.
Init ==
    /\ nodes = <<>>
    /\ proposals = <<>>
    /\ reviews = <<>>
    /\ revision_counter = 0
    /\ audit_log = <<>>
    /\ bus = <<>>
    /\ policies \in PolicyConfigs
    /\ pc = [t \in Tasks |-> "idle"]
    /\ req = [t \in Tasks |-> NoReq]
    /\ loc = [t \in Tasks |-> NoLoc]
    /\ resp = NoResp
    /\ nreq = 0

\* HashMap::insert.
Insert(map, k, v) ==
    [x \in (DOMAIN map) \cup {k} |-> IF x = k THEN v ELSE map[x]]

\* ---------------------------------------------------------- store operations
\* Each operator is the effect of one ContextStore method (or of one critical
\* section of it) on the maps it locks; err = "" means Ok(()).

\* A create_proposal that replaces a stored proposal of the same id.
create_proposal_overwrites(ps, proposal) ==
    [err |-> "", proposals |-> Insert(ps, proposal.id, proposal)]

\* InMemoryStore::create_proposal.
create_proposal(ps, proposal) ==
    IF proposal.id \in DOMAIN ps
    THEN [err |-> "StoreConflict", proposals |-> ps]
    ELSE [err |-> "", proposals |-> Insert(ps, proposal.id, proposal)]

\* InMemoryStore::update_proposal: the "status" member of the patch.
update_proposal(ps, proposal_id, updates) ==
    IF proposal_id \notin DOMAIN ps
    THEN [err |-> "StoreNotFound", proposals |-> ps]
    ELSE IF ~IsSome(updates.status)
    THEN [err |-> "", proposals |-> ps]
    ELSE LET s == Unwrap(updates.status) IN
         IF s = "applied"
         THEN [err |-> "StoreInvalid", proposals |-> ps]
         ELSE IF s \in {"open", "accepted", "rejected", "withdrawn"}
         THEN [err |-> "",
               proposals |-> [ps EXCEPT ![proposal_id].status = s]]
         ELSE [err |-> "StoreInvalid", proposals |-> ps]

\* A submit_review that accepts a review whatever the proposal's status.
submit_review_any_status(ps, rs, review) ==
    LET proposal_id == review.proposal_id IN
    IF proposal_id \notin DOMAIN ps
    THEN [err |-> "StoreNotFound", proposals |-> ps, reviews |-> rs]
    ELSE LET status ==
                 IF review.action = "accept" THEN "accepted"
                 ELSE IF review.action = "reject" THEN "rejected"
                 ELSE ps[proposal_id].status
             history ==
                 IF proposal_id \in DOMAIN rs THEN rs[proposal_id] ELSE <<>>
         IN [err |-> "",
             proposals |-> [ps EXCEPT ![proposal_id].status = status],
             reviews |-> Insert(rs, proposal_id, Append(history, review))]

\* InMemoryStore::submit_review, under the proposals and reviews write locks.
submit_review(ps, rs, review) ==
    LET proposal_id == review.proposal_id IN
    IF proposal_id \notin DOMAIN ps
    THEN [err |-> "StoreNotFound", proposals |-> ps, reviews |-> rs]
    ELSE IF ps[proposal_id].status # "open"
    THEN [err |-> "StoreInvalid", proposals |-> ps, reviews |-> rs]
    ELSE LET status ==
                 IF review.action = "accept" THEN "accepted"
                 ELSE IF review.action = "reject" THEN "rejected"
                 ELSE ps[proposal_id].status
             history ==
                 IF proposal_id \in DOMAIN rs THEN rs[proposal_id] ELSE <<>>
         IN [err |-> "",
             proposals |-> [ps EXCEPT ![proposal_id].status = status],
             reviews |-> Insert(rs, proposal_id, Append(history, review))]

\* A withdraw_proposal that withdraws a proposal whatever its status.
withdraw_proposal_any_status(ps, proposal_id) ==
    IF proposal_id \notin DOMAIN ps
    THEN [err |-> "StoreNotFound", proposals |-> ps]
    ELSE [err |-> "",
          proposals |-> [ps EXCEPT ![proposal_id].status = "withdrawn"]]

\* InMemoryStore::withdraw_proposal.
withdraw_proposal(ps, proposal_id) ==
    IF proposal_id \notin DOMAIN ps
    THEN [err |-> "StoreNotFound", proposals |-> ps]
    ELSE IF ps[proposal_id].status # "open"
    THEN [err |-> "StoreInvalid", proposals |-> ps]
    ELSE [err |-> "",
          proposals |-> [ps EXCEPT ![proposal_id].status = "withdrawn"]]

\* InMemoryStore::get_proposal.
get_proposal(ps, proposal_id) ==
    IF proposal_id \in DOMAIN ps THEN Some(ps[proposal_id]) ELSE None

\* InMemoryStore::get_review_history.
get_review_history(rs, proposal_id) ==
    IF proposal_id \in DOMAIN rs THEN rs[proposal_id] ELSE <<>>

\* An apply_operation whose Update writes the new content and leaves the
\* content hash of the old content in place.
apply_operation_stale_hash(ns, op, modified_by) ==
    CASE op.type = "create" ->
           [err |-> "",
            nodes |-> Insert(ns, node_key(op.node.id),
                        [op.node EXCEPT
                           !.modified_by = modified_by,
                           !.version = @ + 1,
                           !.content_hash = Some(content_hash(op.node.content))])]
      [] op.type = "update" ->
           LET key == node_key(op.node_id) IN
           IF key \notin DOMAIN ns
           THEN [err |-> "StoreNotFound", nodes |-> ns]
           ELSE [err |-> "",
                 nodes |-> [ns EXCEPT ![key] =
                     [@ EXCEPT
                        !.modified_by = modified_by,
                        !.version = @ + 1,
                        !.content = IF IsSome(op.content)
                                    THEN Unwrap(op.content) ELSE @,
                        !.description = IF IsSome(op.content)
                                        THEN Some(Unwrap(op.content)) ELSE @,
                        !.status = IF IsSome(op.status)
                                   THEN Unwrap(op.status) ELSE @]]]
      [] op.type \in {"delete", "status-change"} ->
           LET key == node_key(op.node_id) IN
           IF key \notin DOMAIN ns THEN [err |-> "", nodes |-> ns]
           ELSE [err |-> "",
                 nodes |-> [ns EXCEPT ![key] =
                     [@ EXCEPT
                        !.status = IF op.type = "delete"
                                   THEN "rejected" ELSE op.new_status,
                        !.modified_by = modified_by,
                        !.version = @ + 1]]]

\* InMemoryStore::apply_operation: one operation on the node map.
apply_operation(ns, op, modified_by) ==
    CASE op.type = "create" ->
           LET node == [op.node EXCEPT
                          !.modified_by = modified_by,
                          !.version = @ + 1,
                          !.content_hash = Some(content_hash(op.node.content))]
           IN [err |-> "", nodes |-> Insert(ns, node_key(op.node.id), node)]
      [] op.type = "update" ->
           LET key == node_key(op.node_id) IN
           IF key \notin DOMAIN ns
           THEN [err |-> "StoreNotFound", nodes |-> ns]
           ELSE LET n1 == [ns[key] EXCEPT
                             !.modified_by = modified_by,
                             !.version = @ + 1]
                    n2 == IF IsSome(op.content)
                          THEN [n1 EXCEPT
                                  !.content = Unwrap(op.content),
                                  !.description = Some(Unwrap(op.content)),
                                  !.content_hash =
                                      Some(content_hash(Unwrap(op.content)))]
                          ELSE n1
                    n3 == IF IsSome(op.status)
                          THEN [n2 EXCEPT !.status = Unwrap(op.status)]
                          ELSE n2
                IN [err |-> "", nodes |-> [ns EXCEPT ![key] = n3]]
      [] op.type = "delete" ->
           LET key == node_key(op.node_id) IN
           IF key \in DOMAIN ns
           THEN [err |-> "",
                 nodes |-> [ns EXCEPT ![key] =
                              [@ EXCEPT !.status = "rejected",
                                        !.modified_by = modified_by,
                                        !.version = @ + 1]]]
           ELSE [err |-> "", nodes |-> ns]
      [] op.type = "status-change" ->
           LET key == node_key(op.node_id) IN
           IF key \in DOMAIN ns
           THEN [err |-> "",
                 nodes |-> [ns EXCEPT ![key] =
                              [@ EXCEPT !.status = op.new_status,
                                        !.modified_by = modified_by,
                                        !.version = @ + 1]]]
           ELSE [err |-> "", nodes |-> ns]

\* apply_proposal: `sorted_ops.sort_by_key(order)`: a stable sort, as an
\* insertion of each operation after the operations of order <= its own.
RECURSIVE InsertByOrder(_, _)
InsertByOrder(sorted, op) ==
    IF sorted = <<>> THEN <<op>>
    ELSE IF sorted[Len(sorted)].order <= op.order
    THEN Append(sorted, op)
    ELSE Append(InsertByOrder(SubSeq(sorted, 1, Len(sorted) - 1), op),
                sorted[Len(sorted)])

RECURSIVE sort_by_key(_)
sort_by_key(ops) ==
    IF ops = <<>> THEN <<>>
    ELSE InsertByOrder(sort_by_key(SubSeq(ops, 1, Len(ops) - 1)), ops[Len(ops)])

\* apply_proposal: `for op in &sorted_ops { apply_operation(..)?; }` on the
\* locked node map: the map is mutated in place, so the operations before a
\* failing one stay applied when `?` returns the error.
RECURSIVE apply_operations(_, _, _)
apply_operations(ns, ops, modified_by) ==
    IF ops = <<>> THEN [err |-> "", nodes |-> ns]
    ELSE LET r == apply_operation(ns, Head(ops), modified_by) IN
         IF r.err # "" THEN r
         ELSE apply_operations(r.nodes, Tail(ops), modified_by)

\* ---------------------------------------------------------------- FileStore

\* file_store.rs: FileStore::apply_proposal, the body of its operation loop:
\* Create inserts the node with its content hash (no version bump, no
\* modified_by), Update and StatusChange skip a missing node, Delete removes
\* the node.
FileStore_apply_operation(ns, op) ==
    CASE op.type = "create" ->
           Insert(ns, node_key(op.node.id),
                  [op.node EXCEPT
                     !.content_hash = Some(content_hash(op.node.content))])
      [] op.type = "update" ->
           LET key == node_key(op.node_id) IN
           IF key \notin DOMAIN ns THEN ns
           ELSE LET n1 == IF IsSome(op.content)
                          THEN [ns[key] EXCEPT
                                  !.content = Unwrap(op.content),
                                  !.content_hash =
                                      Some(content_hash(Unwrap(op.content)))]
                          ELSE ns[key]
                    n2 == IF IsSome(op.status)
                          THEN [n1 EXCEPT !.status = Unwrap(op.status)]
                          ELSE n1
                IN [ns EXCEPT ![key] = [n2 EXCEPT !.version = @ + 1]]
      [] op.type = "delete" ->
           LET key == node_key(op.node_id) IN
           [k \in DOMAIN ns \ {key} |-> ns[k]]
      [] op.type = "status-change" ->
           LET key == node_key(op.node_id) IN
           IF key \in DOMAIN ns
           THEN [ns EXCEPT ![key] = [@ EXCEPT !.status = op.new_status]]
           ELSE ns

\* FileStore::apply_proposal: `for op in &proposal.operations`, in list order.
RECURSIVE FileStore_apply_operations(_, _)
FileStore_apply_operations(ns, ops) ==
    IF ops = <<>> THEN ns
    ELSE FileStore_apply_operations(FileStore_apply_operation(ns, Head(ops)),
                                    Tail(ops))

\* file_store.rs: FileStore::is_proposal_stale: Ok(false), whatever the store.
FileStore_is_proposal_stale(proposal_id) == [err |-> "", stale |-> FALSE]

\* file_store.rs: FileStore::update_proposal: every known status name is
\* assigned ("applied" too), an unknown name is ignored, the call returns Ok.
FileStore_update_proposal(ps, proposal_id, updates) ==
    IF proposal_id \notin DOMAIN ps
    THEN [err |-> "StoreNotFound", proposals |-> ps]
    ELSE IF ~IsSome(updates.status)
    THEN [err |-> "", proposals |-> ps]
    ELSE LET s == Unwrap(updates.status) IN
         IF s \in {"open", "accepted", "rejected", "withdrawn", "applied"}
         THEN [err |-> "",
               proposals |-> [ps EXCEPT ![proposal_id].status = s]]
         ELSE [err |-> "", proposals |-> ps]

\* file_store.rs: FileStore::submit_review, under the reviews write lock: the
\* review is pushed onto the list of its proposal id; the proposals map is
\* neither read nor written.
FileStore_submit_review(ps, rs, review) ==
    LET proposal_id == review.proposal_id
        history == IF proposal_id \in DOMAIN rs THEN rs[proposal_id] ELSE <<>>
    IN [err |-> "", proposals |-> ps,
        reviews |-> Insert(rs, proposal_id, Append(history, review))]

\* FileStore::apply_proposal: one critical section under the write locks of
\* proposals, nodes and the revision counter.
FileStore_apply_proposal(ps, ns, rev, proposal_id, applied_by) ==
    IF proposal_id \notin DOMAIN ps
    THEN [err |-> "StoreNotFound", proposals |-> ps, nodes |-> ns,
          revision_counter |-> rev]
    ELSE IF ps[proposal_id].status = "applied"
    THEN [err |-> "", proposals |-> ps, nodes |-> ns, revision_counter |-> rev]
    ELSE [err |-> "",
          proposals |-> [ps EXCEPT ![proposal_id] =
              [@ EXCEPT !.status = "applied",
                        !.applied = Some(
                            [applied_by |-> applied_by,
                             applied_from_review_id |-> None,
                             applied_from_proposal_id |-> proposal_id,
                             applied_to_revision_id |-> <<"rev-", rev + 1>>,
                             previous_revision_id |-> <<"rev-", rev>>])]],
          nodes |-> FileStore_apply_operations(ns, ps[proposal_id].operations),
          revision_counter |-> rev + 1]

\* ---------------------------------------------------------------- policies

\* sensitivity.rs: the derived Ord of Sensitivity.
sensitivity_rank(s) ==
    CASE s = "public" -> 0
      [] s = "internal" -> 1
      [] s = "confidential" -> 2
      [] s = "restricted" -> 3

\* policy.rs: agent_max_sensitivity: the first EgressControl rule, else internal.
RECURSIVE agent_max_sensitivity(_)
agent_max_sensitivity(rules) ==
    IF rules = <<>> THEN "internal"
    ELSE IF Head(rules).type = "egress_control"
    THEN Head(rules).max_sensitivity
    ELSE agent_max_sensitivity(Tail(rules))

\* policy.rs: proposal_touches_node_types: only Create operations count.
proposal_touches_node_types(proposal, node_types) ==
    \E i \in 1..Len(proposal.operations) :
        /\ proposal.operations[i].type = "create"
        /\ proposal.operations[i].node.node_type \in node_types

\* policy.rs: check_agent_restricted_node_modification: the violating
\* operations' positions (one violation each).
check_agent_restricted_node_modification(proposal, actor_type, rules) ==
    IF actor_type # "agent" THEN {}
    ELSE { i \in 1..Len(proposal.operations) :
             /\ proposal.operations[i].type = "create"
             /\ IsSome(proposal.operations[i].node.sensitivity)
             /\ sensitivity_rank(Unwrap(proposal.operations[i].node.sensitivity))
                  > sensitivity_rank(agent_max_sensitivity(rules)) }

\* policy.rs: evaluate_on_create: TRUE when the list of violations is not
\* empty (AgentProposalLimit on the operation count, and the sensitivity of
\* created nodes).
evaluate_on_create(proposal, actor_type, rules) ==
    \/ \E i \in 1..Len(rules) :
          /\ rules[i].type = "agent_proposal_limit"
          /\ actor_type = "agent"
          /\ Len(proposal.operations) > rules[i].max_operations
    \/ check_agent_restricted_node_modification(proposal, actor_type, rules) # {}

\* An evaluate_on_review that accepts on the first accept review.
evaluate_on_review_first_accept(proposal, all_reviews, rules) ==
    IF \E i \in 1..Len(all_reviews) : all_reviews[i].action = "reject"
    THEN Some("rejected")
    ELSE IF \E i \in 1..Len(all_reviews) : all_reviews[i].action = "accept"
    THEN Some("accepted")
    ELSE None

\* policy.rs: evaluate_on_review: the new status (None: still pending).
evaluate_on_review(proposal, all_reviews, rules) ==
    LET has_rejection ==
            \E i \in 1..Len(all_reviews) : all_reviews[i].action = "reject"
        accept_count ==
            Cardinality({i \in 1..Len(all_reviews) :
                           all_reviews[i].action = "accept"})
        applies(rule) ==
            \/ rule.node_types = {}
            \/ proposal_touches_node_types(proposal, rule.node_types)
        mins ==
            {rules[i].min : i \in {j \in 1..Len(rules) :
                                     /\ rules[j].type = "min_approvals"
                                     /\ applies(rules[j])}}
        min_approvals_needed ==
            CHOOSE m \in mins \cup {1} : \A k \in mins \cup {1} : m >= k
        violations ==
            {i \in 1..Len(rules) :
               /\ rules[i].type = "required_reviewer_role"
               /\ applies(rules[i])
               /\ ~\E k \in 1..Len(all_reviews) :
                      /\ all_reviews[k].action = "accept"
                      /\ all_reviews[k].reviewer_role = Some(rules[i].role)}
    IN IF has_rejection THEN Some("rejected")
       ELSE IF accept_count >= min_approvals_needed /\ violations = {}
       THEN Some("accepted")
       ELSE None

\* policy.rs: evaluate_on_apply: TRUE when the list of violations is not
\* empty.  weekday (0 = Monday) and hour are the clock's reading.
evaluate_on_apply(actor_type, rules, weekday, hour) ==
    \E i \in 1..Len(rules) :
        \/ /\ rules[i].type = "change_window"
           /\ \/ weekday \notin rules[i].allowed_days
              \/ hour < rules[i].allowed_hour_start
              \/ hour >= rules[i].allowed_hour_end
        \/ /\ rules[i].type = "agent_restriction"
           /\ actor_type = "agent"
           /\ "apply" \in rules[i].blocked_actions

\* ----------------------------------------------------------------- mediator

\* routes.rs: ApiError::into_response: the status code of an error.
into_response(error) ==
    CASE error = "ApiNotFound" -> 404
      [] error = "ApiInvalid" -> 400
      [] error = "StoreNotFound" -> 404
      [] error = "StoreConflict" -> 409
      [] error = "StoreInvalid" -> 500
      [] error = "StoreInternal" -> 500
      [] error = "Forbidden" -> 403
      [] error = "ForbiddenAgent" -> 403
      [] error = "PolicyViolation" -> 422

\* types/audit.rs: AuditEvent::new.
AuditEvent(action, resource_id, outcome) ==
    [action |-> action, resource_id |-> resource_id, outcome |-> outcome]

\* events.rs: ServerEvent as built by routes.rs publish_event.
ServerEvent(event_type, resource_id) ==
    [event_type |-> event_type, resource_id |-> resource_id]

\* A handler returns Err(error): the task answers and is idle again.
Fail(t, error) ==
    /\ resp' = [task |-> t, status |-> into_response(error), error |-> error]
    /\ pc' = [pc EXCEPT ![t] = "idle"]
    /\ req' = [req EXCEPT ![t] = NoReq]
    /\ loc' = [loc EXCEPT ![t] = NoLoc]

\* A handler returns Ok((status, {"ok": true})).
Succeed(t, status) ==
    /\ resp' = [task |-> t, status |-> status, error |-> ""]
    /\ pc' = [pc EXCEPT ![t] = "idle"]
    /\ req' = [req EXCEPT ![t] = NoReq]
    /\ loc' = [loc EXCEPT ![t] = NoLoc]

\* A handler goes on to its next critical section.
Goto(t, label, request, locals) ==
    /\ pc' = [pc EXCEPT ![t] = label]
    /\ req' = [req EXCEPT ![t] = request]
    /\ loc' = [loc EXCEPT ![t] = locals]
    /\ resp' = NoResp

\* A handler goes on with the same request and locals.
Step(t, label) ==
    /\ pc' = [pc EXCEPT ![t] = label]
    /\ resp' = NoResp
    /\ UNCHANGED <<req, loc>>

\* The router hands a new request to an idle task (the handlers below start
\* from pc[t] = "idle"); the model stops after MaxRequests requests.
Accept(t) ==
    /\ pc[t] = "idle"
    /\ nreq < MaxRequests
    /\ nreq' = nreq + 1

\* The clock readings evaluate_on_apply may see (weekday 0 = Monday, hour).
Clock == { [weekday |-> 0, hour |-> 10], [weekday |-> 5, hour |-> 10] }

\* ---- POST /proposals (routes.rs create_proposal)

CreateProposal(t, actor, proposal) ==
    /\ pc[t] = "idle"
    /\ IF ~require_role(actor, "contributor")
       THEN /\ Fail(t, "Forbidden")
            /\ UNCHANGED <<store_vars, audit_log, bus, policies>>
       ELSE IF evaluate_on_create(proposal, actor.actor_type, policies)
       THEN /\ audit_log' = Append(audit_log,
                 AuditEvent("policy_evaluated", proposal.id, "policy_violation"))
            /\ Fail(t, "PolicyViolation")
            /\ UNCHANGED <<store_vars, bus, policies>>
       ELSE LET r == create_proposal(proposals, proposal) IN
            IF r.err # ""
            THEN /\ Fail(t, r.err)
                 /\ UNCHANGED <<store_vars, audit_log, bus, policies>>
            ELSE /\ proposals' = r.proposals
                 /\ Goto(t, "create_audit",
                         [kind |-> "create", id |-> proposal.id], NoLoc)
                 /\ UNCHANGED <<nodes, reviews, revision_counter, audit_log,
                                bus, policies>>

CreateProposalAudit(t) ==
    /\ pc[t] = "create_audit"
    /\ audit_log' = Append(audit_log,
           AuditEvent("proposal_created", req[t].id, "success"))
    /\ Step(t, "create_publish")
    /\ UNCHANGED <<store_vars, bus, policies, nreq>>

CreateProposalPublish(t) ==
    /\ pc[t] = "create_publish"
    /\ bus' = Append(bus, ServerEvent("proposal_updated", req[t].id))
    /\ Succeed(t, 201)
    /\ UNCHANGED <<store_vars, audit_log, policies, nreq>>

\* ---- PATCH /proposals/:id (routes.rs update_proposal)

UpdateProposal(t, actor, id, updates) ==
    /\ pc[t] = "idle"
    /\ IF ~require_role(actor, "contributor")
       THEN /\ Fail(t, "Forbidden")
            /\ UNCHANGED <<store_vars, audit_log, bus, policies>>
       ELSE LET r == update_proposal(proposals, id, updates) IN
            IF r.err # ""
            THEN /\ Fail(t, r.err)
                 /\ UNCHANGED <<store_vars, audit_log, bus, policies>>
            ELSE /\ proposals' = r.proposals
                 /\ Goto(t, "update_audit", [kind |-> "update", id |-> id], NoLoc)
                 /\ UNCHANGED <<nodes, reviews, revision_counter, audit_log,
                                bus, policies>>

UpdateProposalAudit(t) ==
    /\ pc[t] = "update_audit"
    /\ audit_log' = Append(audit_log,
           AuditEvent("proposal_updated", req[t].id, "success"))
    /\ Step(t, "update_publish")
    /\ UNCHANGED <<store_vars, bus, policies, nreq>>

UpdateProposalPublish(t) ==
    /\ pc[t] = "update_publish"
    /\ bus' = Append(bus, ServerEvent("proposal_updated", req[t].id))
    /\ Succeed(t, 200)
    /\ UNCHANGED <<store_vars, audit_log, policies, nreq>>

\* ---- POST /proposals/:id/review (routes.rs submit_review)

SubmitReview(t, actor, id, review) ==
    /\ pc[t] = "idle"
    /\ IF ~require_role(actor, "reviewer")
       THEN /\ Fail(t, "Forbidden")
            /\ UNCHANGED <<store_vars, audit_log, bus, policies>>
       ELSE IF reject_agent(actor)
       THEN /\ Fail(t, "ForbiddenAgent")
            /\ UNCHANGED <<store_vars, audit_log, bus, policies>>
       ELSE IF review.proposal_id # id
       THEN /\ Fail(t, "ApiInvalid")
            /\ UNCHANGED <<store_vars, audit_log, bus, policies>>
       ELSE LET r == submit_review(proposals, reviews, review) IN
            IF r.err # ""
            THEN /\ Fail(t, r.err)
                 /\ UNCHANGED <<store_vars, audit_log, bus, policies>>
            ELSE /\ proposals' = r.proposals
                 /\ reviews' = r.reviews
                 /\ Goto(t, "review_audit", [kind |-> "review", id |-> id], NoLoc)
                 /\ UNCHANGED <<nodes, revision_counter, audit_log, bus, policies>>

SubmitReviewAudit(t) ==
    /\ pc[t] = "review_audit"
    /\ audit_log' = Append(audit_log,
           AuditEvent("review_submitted", req[t].id, "success"))
    /\ Step(t, "review_publish")
    /\ UNCHANGED <<store_vars, bus, policies, nreq>>

SubmitReviewPublish(t) ==
    /\ pc[t] = "review_publish"
    /\ bus' = Append(bus, ServerEvent("review_submitted", req[t].id))
    /\ Step(t, "review_get")
    /\ UNCHANGED <<store_vars, audit_log, policies, nreq>>

\* `state.store.get_proposal(&id)` of the policy re-evaluation.
SubmitReviewGetProposal(t) ==
    /\ pc[t] = "review_get"
    /\ LET proposal == get_proposal(proposals, req[t].id) IN
       IF IsSome(proposal)
       THEN Goto(t, "review_history", req[t], [proposal |-> Unwrap(proposal)])
       ELSE Succeed(t, 200)
    /\ UNCHANGED <<store_vars, audit_log, bus, policies, nreq>>

\* `state.store.get_review_history(&id)` and policy::evaluate_on_review.
SubmitReviewGetHistory(t) ==
    /\ pc[t] = "review_history"
    /\ LET all_reviews == get_review_history(reviews, req[t].id)
           new_status == evaluate_on_review(loc[t].proposal, all_reviews, policies)
       IN IF IsSome(new_status)
          THEN Goto(t, "review_update", req[t], [status |-> Unwrap(new_status)])
          ELSE Succeed(t, 200)
    /\ UNCHANGED <<store_vars, audit_log, bus, policies, nreq>>

\* `let _ = state.store.update_proposal(&id, {"status": status_str})`.
SubmitReviewUpdate(t) ==
    /\ pc[t] = "review_update"
    /\ proposals' =
           update_proposal(proposals, req[t].id,
                           [status |-> Some(loc[t].status)]).proposals
    /\ Step(t, "review_policy_audit")
    /\ UNCHANGED <<nodes, reviews, revision_counter, audit_log, bus, policies,
                   nreq>>

SubmitReviewPolicyAudit(t) ==
    /\ pc[t] = "review_policy_audit"
    /\ audit_log' = Append(audit_log,
           AuditEvent("policy_evaluated", req[t].id, "success"))
    /\ Succeed(t, 200)
    /\ UNCHANGED <<store_vars, bus, policies, nreq>>

\* ---- POST /proposals/:id/apply (routes.rs apply_proposal, and the critical
\* ---- sections of InMemoryStore::apply_proposal)

\* RBAC, agent rejection, `state.store.get_proposal(&id)`, evaluate_on_apply.
ApplyProposal(t, actor, id, clock) ==
    /\ pc[t] = "idle"
    /\ IF ~require_role(actor, "applier")
       THEN Fail(t, "Forbidden")
       ELSE IF reject_agent(actor)
       THEN Fail(t, "ForbiddenAgent")
       ELSE LET proposal == get_proposal(proposals, id) IN
            IF /\ IsSome(proposal)
               /\ evaluate_on_apply(actor.actor_type, policies,
                                    clock.weekday, clock.hour)
            THEN Goto(t, "apply_violation_audit",
                      [kind |-> "apply", id |-> id], [proposal |-> proposal])
            ELSE Goto(t, "apply_check_applied", [kind |-> "apply", id |-> id],
                      [proposal |-> proposal, applied_by |-> actor.actor_id])
    /\ UNCHANGED <<store_vars, audit_log, bus, policies>>

ApplyViolationAudit(t) ==
    /\ pc[t] = "apply_violation_audit"
    /\ audit_log' = Append(audit_log,
           AuditEvent("policy_evaluated", req[t].id, "policy_violation"))
    /\ Fail(t, "PolicyViolation")
    /\ UNCHANGED <<store_vars, bus, policies, nreq>>

\* store.apply_proposal, first read section: already Applied => Ok(()).
\* The apply_proposal of a store that lost its already-Applied early return.
apply_is_applied_skipped(ps, proposal_id) == FALSE

apply_is_applied(ps, proposal_id) ==
    /\ proposal_id \in DOMAIN ps
    /\ ps[proposal_id].status = "applied"

ApplyCheckApplied(t) ==
    /\ pc[t] = "apply_check_applied"
    /\ IF apply_is_applied(proposals, req[t].id)
       THEN Goto(t, "apply_audit", req[t], [proposal |-> loc[t].proposal])
       ELSE Step(t, "apply_read")
    /\ UNCHANGED <<store_vars, audit_log, bus, policies, nreq>>

\* store.apply_proposal, second read section: the status must be Accepted;
\* the operations and the last review id are copied, then sorted.
apply_precondition(ps, proposal_id) ==
    IF proposal_id \notin DOMAIN ps THEN "StoreNotFound"
    ELSE IF ps[proposal_id].status # "accepted" THEN "StoreInvalid"
    ELSE ""

ApplyRead(t) ==
    /\ pc[t] = "apply_read"
    /\ LET err == apply_precondition(proposals, req[t].id)
           history == get_review_history(reviews, req[t].id)
       IN IF err # ""
          THEN Fail(t, err)
          ELSE Goto(t, "apply_revision", req[t],
                    [proposal |-> loc[t].proposal,
                     applied_by |-> loc[t].applied_by,
                     sorted_ops |-> sort_by_key(proposals[req[t].id].operations),
                     last_review_id |->
                         IF history = <<>> THEN None
                         ELSE Some(history[Len(history)].id)])
    /\ UNCHANGED <<store_vars, audit_log, bus, policies, nreq>>

\* store.apply_proposal: the revision_counter write section.
ApplyRevision(t) ==
    /\ pc[t] = "apply_revision"
    /\ revision_counter' = revision_counter + 1
    /\ loc' = [loc EXCEPT ![t] =
                 [proposal |-> loc[t].proposal,
                  applied_by |-> loc[t].applied_by,
                  sorted_ops |-> loc[t].sorted_ops,
                  last_review_id |-> loc[t].last_review_id,
                  previous_revision_id |-> rev_id(revision_counter),
                  applied_to_revision_id |-> rev_id(revision_counter + 1)]]
    /\ pc' = [pc EXCEPT ![t] = "apply_nodes"]
    /\ resp' = NoResp
    /\ UNCHANGED <<nodes, proposals, reviews, audit_log, bus, policies, req,
                   nreq>>

\* store.apply_proposal: the nodes write section.
ApplyNodes(t) ==
    /\ pc[t] = "apply_nodes"
    /\ LET r == apply_operations(nodes, loc[t].sorted_ops, loc[t].applied_by) IN
       /\ nodes' = r.nodes
       /\ IF r.err # ""
          THEN Fail(t, r.err)
          ELSE Step(t, "apply_mark")
    /\ UNCHANGED <<proposals, reviews, revision_counter, audit_log, bus,
                   policies, nreq>>

\* store.apply_proposal: the proposals write section.
apply_mark(ps, proposal_id, locals) ==
    IF proposal_id \in DOMAIN ps
    THEN [ps EXCEPT ![proposal_id] =
            [@ EXCEPT
               !.status = "applied",
               !.applied = Some(
                   [applied_by |-> locals.applied_by,
                    applied_from_review_id |-> locals.last_review_id,
                    applied_from_proposal_id |-> proposal_id,
                    applied_to_revision_id |-> locals.applied_to_revision_id,
                    previous_revision_id |-> locals.previous_revision_id])]]
    ELSE ps

ApplyMark(t) ==
    /\ pc[t] = "apply_mark"
    /\ proposals' = apply_mark(proposals, req[t].id, loc[t])
    /\ Goto(t, "apply_audit", req[t], [proposal |-> loc[t].proposal])
    /\ UNCHANGED <<nodes, reviews, revision_counter, audit_log, bus, policies,
                   nreq>>

ApplyAudit(t) ==
    /\ pc[t] = "apply_audit"
    /\ audit_log' = Append(audit_log,
           AuditEvent("proposal_applied", req[t].id, "success"))
    /\ Step(t, "apply_publish")
    /\ UNCHANGED <<store_vars, bus, policies, nreq>>

ApplyPublish(t) ==
    /\ pc[t] = "apply_publish"
    /\ bus' = Append(bus, ServerEvent("proposal_updated", req[t].id))
    /\ Succeed(t, 200)
    /\ UNCHANGED <<store_vars, audit_log, policies, nreq>>

\* ---- POST /proposals/:id/withdraw (routes.rs withdraw_proposal)

WithdrawProposal(t, actor, id) ==
    /\ pc[t] = "idle"
    /\ IF ~require_role(actor, "contributor")
       THEN /\ Fail(t, "Forbidden")
            /\ UNCHANGED <<store_vars, audit_log, bus, policies>>
       ELSE LET r == withdraw_proposal(proposals, id) IN
            IF r.err # ""
            THEN /\ Fail(t, r.err)
                 /\ UNCHANGED <<store_vars, audit_log, bus, policies>>
            ELSE /\ proposals' = r.proposals
                 /\ Goto(t, "withdraw_audit", [kind |-> "withdraw", id |-> id], NoLoc)
                 /\ UNCHANGED <<nodes, reviews, revision_counter, audit_log,
                                bus, policies>>

WithdrawProposalAudit(t) ==
    /\ pc[t] = "withdraw_audit"
    /\ audit_log' = Append(audit_log,
           AuditEvent("proposal_withdrawn", req[t].id, "success"))
    /\ Step(t, "withdraw_publish")
    /\ UNCHANGED <<store_vars, bus, policies, nreq>>

WithdrawProposalPublish(t) ==
    /\ pc[t] = "withdraw_publish"
    /\ bus' = Append(bus, ServerEvent("proposal_updated", req[t].id))
    /\ Succeed(t, 200)
    /\ UNCHANGED <<store_vars, audit_log, policies, nreq>>

\* ---- POST /reset (routes.rs reset_store, InMemoryStore::reset)

ResetStore(t, actor) ==
    /\ pc[t] = "idle"
    /\ IF ~require_role(actor, "admin")
       THEN /\ Fail(t, "Forbidden")
            /\ UNCHANGED <<store_vars, audit_log, bus, policies>>
       ELSE /\ nodes' = <<>>
            /\ proposals' = <<>>
            /\ reviews' = <<>>
            /\ revision_counter' = 0
            /\ Goto(t, "reset_audit", [kind |-> "reset", id |-> "store"], NoLoc)
            /\ UNCHANGED <<audit_log, bus, policies>>

ResetStoreAudit(t) ==
    /\ pc[t] = "reset_audit"
    /\ audit_log' = Append(audit_log, AuditEvent("store_reset", "store", "success"))
    /\ Step(t, "reset_publish")
    /\ UNCHANGED <<store_vars, bus, policies, nreq>>

ResetStorePublish(t) ==
    /\ pc[t] = "reset_publish"
    /\ bus' = Append(bus, ServerEvent("config_changed", "store"))
    /\ Succeed(t, 200)
    /\ UNCHANGED <<store_vars, audit_log, policies, nreq>>

\* ------------------------------------------------------------ specification

Next ==
    \E t \in Tasks :
        \/ \E actor \in Actors, proposal \in ProposalInputs :
               Accept(t) /\ CreateProposal(t, actor, proposal)
        \/ CreateProposalAudit(t)
        \/ CreateProposalPublish(t)
        \/ \E actor \in Actors, id \in PathIds, status \in PatchStatus :
               Accept(t) /\ UpdateProposal(t, actor, id, [status |-> status])
        \/ UpdateProposalAudit(t)
        \/ UpdateProposalPublish(t)
        \/ \E actor \in Actors, id \in PathIds, review \in ReviewInputs :
               Accept(t) /\ SubmitReview(t, actor, id, review)
        \/ SubmitReviewAudit(t)
        \/ SubmitReviewPublish(t)
        \/ SubmitReviewGetProposal(t)
        \/ SubmitReviewGetHistory(t)
        \/ SubmitReviewUpdate(t)
        \/ SubmitReviewPolicyAudit(t)
        \/ \E actor \in Actors, id \in PathIds, clock \in Clock :
               Accept(t) /\ ApplyProposal(t, actor, id, clock)
        \/ ApplyViolationAudit(t)
        \/ ApplyCheckApplied(t)
        \/ ApplyRead(t)
        \/ ApplyRevision(t)
        \/ ApplyNodes(t)
        \/ ApplyMark(t)
        \/ ApplyAudit(t)
        \/ ApplyPublish(t)
        \/ \E actor \in Actors, id \in PathIds : Accept(t) /\ WithdrawProposal(t, actor, id)
        \/ WithdrawProposalAudit(t)
        \/ WithdrawProposalPublish(t)
        \/ \E actor \in Actors : Accept(t) /\ ResetStore(t, actor)
        \/ ResetStoreAudit(t)
        \/ ResetStorePublish(t)

Spec == Init /\ [][Next]_vars

\* ------------------------------------------- sequential runs, two proposals

\* One client that sends its requests one after the other: Accepted proposals
\* p1 and p2 with any of the operation lists (status-only Update, Delete and
\* StatusChange of n1 too), applies and resets, as dev-user on a Monday at 10h.
SeqTask == "t1"
SeqProposalIds == {"p1", "p2"}
OpUpdateStatusN1 ==
    [type |-> "update", order |-> 1, node_id |-> NodeIdN1,
     content |-> None, status |-> Some("proposed")]
OpDeleteN1 == [type |-> "delete", order |-> 1, node_id |-> NodeIdN1]
OpStatusChangeN1 ==
    [type |-> "status-change", order |-> 1, node_id |-> NodeIdN1,
     new_status |-> "superseded"]
SeqOperationLists ==
    OperationLists
        \cup { <<OpUpdateStatusN1>>, <<OpDeleteN1>>, <<OpStatusChangeN1>> }
SeqProposalInputs ==
    [id : SeqProposalIds, status : {"accepted"},
     operations : SeqOperationLists, applied : {None}]
SeqClock == [weekday |-> 0, hour |-> 10]

\* The sequential client sends its next request; the model stops after
\* MaxSeqRequests requests.
AcceptSeq ==
    /\ pc[SeqTask] = "idle"
    /\ nreq < MaxSeqRequests
    /\ nreq' = nreq + 1

NextSeq ==
    \/ \E proposal \in SeqProposalInputs :
           AcceptSeq /\ CreateProposal(SeqTask, DevUser, proposal)
    \/ CreateProposalAudit(SeqTask)
    \/ CreateProposalPublish(SeqTask)
    \/ \E id \in SeqProposalIds :
           AcceptSeq /\ ApplyProposal(SeqTask, DevUser, id, SeqClock)
    \/ ApplyCheckApplied(SeqTask)
    \/ ApplyRead(SeqTask)
    \/ ApplyRevision(SeqTask)
    \/ ApplyNodes(SeqTask)
    \/ ApplyMark(SeqTask)
    \/ ApplyAudit(SeqTask)
    \/ ApplyPublish(SeqTask)
    \/ AcceptSeq /\ ResetStore(SeqTask, DevUser)
    \/ ResetStoreAudit(SeqTask)
    \/ ResetStorePublish(SeqTask)

SpecSeq == Init /\ [][NextSeq]_vars

\* ------------------------------------ callers of the store, lock by lock

\* Tasks that call the ContextStore methods of one InMemoryStore directly (and
\* POST /proposals/:id/apply through its handler).  A step is what a method
\* does between two lock acquisitions; a lock is taken when no other task
\* holds it in a conflicting mode (std::sync::RwLock).

\* operations_node_keys: the keys a proposal's operations name.
operations_node_keys(ops) ==
    { node_key(IF ops[i].type = "create" THEN ops[i].node.id
               ELSE ops[i].node_id) : i \in 1..Len(ops) }

\* InMemoryStore::get_node.
get_node(ns, node_id) ==
    IF node_key(node_id) \in DOMAIN ns THEN Some(ns[node_key(node_id)])
    ELSE None

\* An append_audit that puts the newest event first.
append_audit_newest_first(log, event) == <<event>> \o log

\* InMemoryStore::append_audit.
append_audit(log, event) == Append(log, event)

\* A detect_conflicts that compares the target with every other proposal,
\* whatever its status.
detect_conflicts_any_status(ps, proposal_id) ==
    IF proposal_id \notin DOMAIN ps
    THEN [err |-> "StoreNotFound", conflicts |-> {}, mergeable |-> {},
          needs_resolution |-> {}]
    ELSE LET open == DOMAIN ps \ {proposal_id}
             node_ids_self == operations_node_keys(ps[proposal_id].operations)
             conflicting_nodes(o) ==
                 node_ids_self \cap operations_node_keys(ps[o].operations)
             needs_resolution == { o \in open : conflicting_nodes(o) # {} }
         IN [err |-> "",
             conflicts |->
                 { [proposals |-> <<proposal_id, o>>,
                    conflicting_nodes |-> conflicting_nodes(o),
                    severity |->
                        IF Cardinality(conflicting_nodes(o)) > 1
                        THEN "critical" ELSE "node",
                    auto_resolvable |-> FALSE] : o \in needs_resolution },
             mergeable |-> open \ needs_resolution,
             needs_resolution |-> needs_resolution]

\* InMemoryStore::detect_conflicts.  The result vectors follow the iteration
\* order of the proposals HashMap, which is unspecified: they are sets here.
detect_conflicts(ps, proposal_id) ==
    IF proposal_id \notin DOMAIN ps
    THEN [err |-> "StoreNotFound", conflicts |-> {}, mergeable |-> {},
          needs_resolution |-> {}]
    ELSE LET open == { o \in DOMAIN ps :
                          ps[o].status = "open" /\ o # proposal_id }
             node_ids_self == operations_node_keys(ps[proposal_id].operations)
             conflicting_nodes(o) ==
                 node_ids_self \cap operations_node_keys(ps[o].operations)
             needs_resolution == { o \in open : conflicting_nodes(o) # {} }
         IN [err |-> "",
             conflicts |->
                 { [proposals |-> <<proposal_id, o>>,
                    conflicting_nodes |-> conflicting_nodes(o),
                    severity |->
                        IF Cardinality(conflicting_nodes(o)) > 1
                        THEN "critical" ELSE "node",
                    auto_resolvable |-> FALSE] : o \in needs_resolution },
             mergeable |-> open \ needs_resolution,
             needs_resolution |-> needs_resolution]

\* InMemoryStore::is_proposal_stale, with both read locks held.
is_proposal_stale(ps, ns, proposal_id) ==
    IF proposal_id \notin DOMAIN ps
    THEN [err |-> "StoreNotFound", stale |-> FALSE]
    ELSE LET proposal == ps[proposal_id]
             node_keys == operations_node_keys(proposal.operations)
             current_versions ==
                 [k \in node_keys \cap DOMAIN ns |-> ns[k].version]
         IN IF ~IsSome(proposal.base_versions)
            THEN [err |-> "", stale |-> FALSE]
            ELSE LET base == Unwrap(proposal.base_versions) IN
                 [err |-> "",
                  stale |-> \E key \in DOMAIN current_versions :
                                /\ key \in DOMAIN base
                                /\ current_versions[key] > base[key]]

\* merge_proposals: the (proposal id, value) pairs one Update contributes.
merge_op_entries(pid, op) ==
    IF op.type # "update" THEN <<>>
    ELSE (IF IsSome(op.content)
          THEN << [key |-> node_key(op.node_id), field |-> "content",
                   proposal |-> pid, value |-> Unwrap(op.content)] >>
          ELSE <<>>)
         \o
         (IF IsSome(op.status)
          THEN << [key |-> node_key(op.node_id), field |-> "status",
                   proposal |-> pid, value |-> Unwrap(op.status)] >>
          ELSE <<>>)

RECURSIVE merge_ops_entries(_, _)
merge_ops_entries(pid, ops) ==
    IF ops = <<>> THEN <<>>
    ELSE merge_op_entries(pid, Head(ops)) \o merge_ops_entries(pid, Tail(ops))

RECURSIVE merge_entries(_, _)
merge_entries(ps, proposal_ids) ==
    IF proposal_ids = <<>> THEN <<>>
    ELSE merge_ops_entries(Head(proposal_ids), ps[Head(proposal_ids)].operations)
         \o merge_entries(ps, Tail(proposal_ids))

\* A merge_proposals that classifies a field by its distinct values alone:
\* one distinct value is auto_merged however many proposals give it.
merge_proposals_by_distinct_values(ps, proposal_ids) ==
    IF \E i \in 1..Len(proposal_ids) : proposal_ids[i] \notin DOMAIN ps
    THEN [err |-> "StoreNotFound", merged |-> {}, conflicts |-> {},
          auto_merged |-> {}]
    ELSE LET entries == merge_entries(ps, proposal_ids)
             fields == { <<entries[i].key, entries[i].field>> :
                            i \in 1..Len(entries) }
             values(f) ==
                 SelectSeq(entries,
                           LAMBDA e : e.key = f[1] /\ e.field = f[2])
             uniq(f) == { values(f)[i].value : i \in 1..Len(values(f)) }
         IN [err |-> "",
             auto_merged |->
                 { [node_key |-> f[1], field |-> f[2],
                    new_value |-> values(f)[1].value] :
                   f \in { g \in fields : Cardinality(uniq(g)) = 1 } },
             conflicts |->
                 { [node_key |-> f[1], field |-> f[2],
                    proposal1_value |-> values(f)[1].value,
                    proposal2_value |-> values(f)[2].value] :
                   f \in { g \in fields : Cardinality(uniq(g)) > 1 } },
             merged |-> {}]

\* InMemoryStore::merge_proposals.  by_field is a HashMap, so the result
\* vectors are sets here.
merge_proposals(ps, proposal_ids) ==
    IF \E i \in 1..Len(proposal_ids) : proposal_ids[i] \notin DOMAIN ps
    THEN [err |-> "StoreNotFound", merged |-> {}, conflicts |-> {},
          auto_merged |-> {}]
    ELSE LET entries == merge_entries(ps, proposal_ids)
             fields == { <<entries[i].key, entries[i].field>> :
                            i \in 1..Len(entries) }
             values(f) ==
                 SelectSeq(entries,
                           LAMBDA e : e.key = f[1] /\ e.field = f[2])
             uniq(f) == { values(f)[i].value : i \in 1..Len(values(f)) }
             change(f) ==
                 [node_key |-> f[1], field |-> f[2],
                  new_value |-> values(f)[1].value]
         IN [err |-> "",
             auto_merged |->
                 { change(f) : f \in { g \in fields : Len(values(g)) = 1 } },
             conflicts |->
                 { [node_key |-> f[1], field |-> f[2],
                    proposal1_value |-> values(f)[1].value,
                    proposal2_value |-> values(f)[2].value] :
                   f \in { g \in fields :
                              /\ Len(values(g)) > 1
                              /\ Cardinality(uniq(g)) > 1 } },
             merged |->
                 { change(f) :
                   f \in { g \in fields :
                              /\ Len(values(g)) > 1
                              /\ Cardinality(uniq(g)) = 1 } }]

\* The calls the model stops after.
MaxCalls == 3

StoreProposalIds == {"p1", "p2"}
BaseVersionsN1 == [k \in {node_key(NodeIdN1)} |-> 1]
OpUpdateN1Other ==
    [type |-> "update", order |-> 1, node_id |-> NodeIdN1,
     content |-> Some("there"), status |-> None]

\* Proposals as a caller hands them to create_proposal: Open ones that update
\* n1 (with and without metadata.base_versions) and an Accepted one that
\* creates it.
StoreProposalInputs ==
    [id : StoreProposalIds, status : {"open"},
     operations : {<<OpUpdateN1>>}, applied : {None},
     base_versions : {None, Some(BaseVersionsN1)}]
    \cup
    [id : {"p2"}, status : {"open"},
     operations : {<<OpUpdateN1Other>>}, applied : {None},
     base_versions : {None}]
    \cup
    [id : {"p1"}, status : {"accepted"},
     operations : {<<OpCreateN1>>}, applied : {None},
     base_versions : {None}]

StoreReviewInputs ==
    [id : ReviewIds, proposal_id : StoreProposalIds, action : ReviewAction,
     reviewer_role : {None}]

\* The events a caller hands to append_audit.
StoreAuditEvents ==
    { AuditEvent("node_read", "n1", "success"),
      AuditEvent("proposal_created", "p1", "success") }

StoreMergeInputs == { <<"p1">>, <<"p1", "p2">> }

\* The guards a task holds while it waits for its next lock: its position
\* inside reset, submit_review and is_proposal_stale.
Holds(t) ==
    CASE pc[t] = "reset_proposals" -> { <<"nodes", "write">> }
      [] pc[t] = "reset_reviews" ->
             { <<"nodes", "write">>, <<"proposals", "write">> }
      [] pc[t] = "reset_revision" ->
             { <<"nodes", "write">>, <<"proposals", "write">>,
               <<"reviews", "write">> }
      [] pc[t] = "review_reviews" -> { <<"proposals", "write">> }
      [] pc[t] = "stale_nodes" -> { <<"proposals", "read">> }
      [] OTHER -> {}

\* The lock the task's next step acquires first.
Waits(t) ==
    CASE pc[t] = "reset_proposals" -> { <<"proposals", "write">> }
      [] pc[t] = "reset_reviews" -> { <<"reviews", "write">> }
      [] pc[t] = "reset_revision" -> { <<"revision_counter", "write">> }
      [] pc[t] = "review_reviews" -> { <<"reviews", "write">> }
      [] pc[t] = "stale_nodes" -> { <<"nodes", "read">> }
      [] pc[t] \in {"apply_check_applied", "apply_read"} ->
             { <<"proposals", "read">> }
      [] pc[t] = "apply_revision" -> { <<"revision_counter", "write">> }
      [] pc[t] = "apply_nodes" -> { <<"nodes", "write">> }
      [] pc[t] = "apply_mark" -> { <<"proposals", "write">> }
      [] pc[t] \in {"apply_audit"} -> { <<"audit_log", "write">> }
      [] OTHER -> {}

\* RwLock: read() waits for a writer, write() for any holder.
Blocks(held, wanted) ==
    /\ held[1] = wanted[1]
    /\ held[2] = "write" \/ wanted[2] = "write"

read(t, lock) ==
    \A u \in Tasks \ {t} : \A h \in Holds(u) : ~Blocks(h, <<lock, "read">>)

write(t, lock) ==
    \A u \in Tasks \ {t} : \A h \in Holds(u) : ~Blocks(h, <<lock, "write">>)

\* A store method returns to its caller.
Return(t, method, err, value) ==
    /\ resp' = [task |-> t, status |-> 0, error |-> err, method |-> method,
                value |-> value]
    /\ pc' = [pc EXCEPT ![t] = "idle"]
    /\ req' = [req EXCEPT ![t] = NoReq]
    /\ loc' = [loc EXCEPT ![t] = NoLoc]

AcceptCall(t) ==
    /\ pc[t] = "idle"
    /\ nreq < MaxCalls
    /\ nreq' = nreq + 1

\* A create_proposal that writes the nodes of the proposal it stores.
StoreCreateProposalWritesNodes(t, proposal) ==
    /\ pc[t] = "idle"
    /\ write(t, "proposals")
    /\ LET r == create_proposal(proposals, proposal) IN
       /\ proposals' = r.proposals
       /\ Return(t, "create_proposal", r.err, None)
    /\ nodes' = apply_operations(nodes, proposal.operations, "create").nodes
    /\ UNCHANGED <<reviews, revision_counter, audit_log, bus, policies>>

StoreCreateProposal(t, proposal) ==
    /\ pc[t] = "idle"
    /\ write(t, "proposals")
    /\ LET r == create_proposal(proposals, proposal) IN
       /\ proposals' = r.proposals
       /\ Return(t, "create_proposal", r.err, None)
    /\ UNCHANGED <<nodes, reviews, revision_counter, audit_log, bus, policies>>

StoreUpdateProposal(t, id, updates) ==
    /\ pc[t] = "idle"
    /\ write(t, "proposals")
    /\ LET r == update_proposal(proposals, id, updates) IN
       /\ proposals' = r.proposals
       /\ Return(t, "update_proposal", r.err, None)
    /\ UNCHANGED <<nodes, reviews, revision_counter, audit_log, bus, policies>>

StoreWithdrawProposal(t, id) ==
    /\ pc[t] = "idle"
    /\ write(t, "proposals")
    /\ LET r == withdraw_proposal(proposals, id) IN
       /\ proposals' = r.proposals
       /\ Return(t, "withdraw_proposal", r.err, None)
    /\ UNCHANGED <<nodes, reviews, revision_counter, audit_log, bus, policies>>

\* submit_review up to `self.reviews.write()`: the proposals guard is taken,
\* the status is checked and set.
StoreSubmitReview(t, review) ==
    /\ pc[t] = "idle"
    /\ write(t, "proposals")
    /\ LET r == submit_review(proposals, reviews, review) IN
       IF r.err # ""
       THEN /\ Return(t, "submit_review", r.err, None)
            /\ UNCHANGED proposals
       ELSE /\ proposals' = r.proposals
            /\ Goto(t, "review_reviews",
                    [kind |-> "review", id |-> review.proposal_id,
                     review |-> review], NoLoc)
    /\ UNCHANGED <<nodes, reviews, revision_counter, audit_log, bus, policies>>

\* submit_review from `self.reviews.write()` on: the review is pushed.
StoreSubmitReviewPush(t) ==
    /\ pc[t] = "review_reviews"
    /\ write(t, "reviews")
    /\ reviews' = Insert(reviews, req[t].id,
                         Append(get_review_history(reviews, req[t].id),
                                req[t].review))
    /\ Return(t, "submit_review", "", None)
    /\ UNCHANGED <<nodes, proposals, revision_counter, audit_log, bus,
                   policies, nreq>>

StoreGetProposal(t, id) ==
    /\ pc[t] = "idle"
    /\ read(t, "proposals")
    /\ Return(t, "get_proposal", "", get_proposal(proposals, id))
    /\ UNCHANGED <<store_vars, audit_log, bus, policies>>

StoreGetNode(t, node_id) ==
    /\ pc[t] = "idle"
    /\ read(t, "nodes")
    /\ Return(t, "get_node", "", get_node(nodes, node_id))
    /\ UNCHANGED <<store_vars, audit_log, bus, policies>>

StoreGetReviewHistory(t, id) ==
    /\ pc[t] = "idle"
    /\ read(t, "reviews")
    /\ Return(t, "get_review_history", "", get_review_history(reviews, id))
    /\ UNCHANGED <<store_vars, audit_log, bus, policies>>

StoreAppendAudit(t, event) ==
    /\ pc[t] = "idle"
    /\ audit_log' = append_audit(audit_log, event)
    /\ Return(t, "append_audit", "", None)
    /\ UNCHANGED <<store_vars, bus, policies>>

StoreDetectConflicts(t, id) ==
    /\ pc[t] = "idle"
    /\ read(t, "proposals")
    /\ LET r == detect_conflicts(proposals, id) IN
       Return(t, "detect_conflicts", r.err,
              [conflicts |-> r.conflicts, mergeable |-> r.mergeable,
               needs_resolution |-> r.needs_resolution])
    /\ UNCHANGED <<store_vars, audit_log, bus, policies>>

StoreMergeProposals(t, proposal_ids) ==
    /\ pc[t] = "idle"
    /\ read(t, "proposals")
    /\ LET r == merge_proposals(proposals, proposal_ids) IN
       Return(t, "merge_proposals", r.err,
              [merged |-> r.merged, conflicts |-> r.conflicts,
               auto_merged |-> r.auto_merged])
    /\ UNCHANGED <<store_vars, audit_log, bus, policies>>

\* is_proposal_stale up to `self.nodes.read()`: the proposals read guard is
\* taken and the proposal looked up.
StoreIsProposalStale(t, id) ==
    /\ pc[t] = "idle"
    /\ read(t, "proposals")
    /\ IF id \notin DOMAIN proposals
       THEN Return(t, "is_proposal_stale", "StoreNotFound", None)
       ELSE Goto(t, "stale_nodes", [kind |-> "stale", id |-> id], NoLoc)
    /\ UNCHANGED <<store_vars, audit_log, bus, policies>>

\* is_proposal_stale from `self.nodes.read()` on.
StoreIsProposalStaleNodes(t) ==
    /\ pc[t] = "stale_nodes"
    /\ read(t, "nodes")
    /\ Return(t, "is_proposal_stale", "",
              is_proposal_stale(proposals, nodes, req[t].id).stale)
    /\ UNCHANGED <<store_vars, audit_log, bus, policies, nreq>>

\* reset: `self.nodes.write()`.
StoreReset(t) ==
    /\ pc[t] = "idle"
    /\ write(t, "nodes")
    /\ Goto(t, "reset_proposals", [kind |-> "reset", id |-> "store"], NoLoc)
    /\ UNCHANGED <<store_vars, audit_log, bus, policies>>

\* reset: `self.proposals.write()`.
StoreResetProposals(t) ==
    /\ pc[t] = "reset_proposals"
    /\ write(t, "proposals")
    /\ Step(t, "reset_reviews")
    /\ UNCHANGED <<store_vars, audit_log, bus, policies, nreq>>

\* reset: `self.reviews.write()`.
StoreResetReviews(t) ==
    /\ pc[t] = "reset_reviews"
    /\ write(t, "reviews")
    /\ Step(t, "reset_revision")
    /\ UNCHANGED <<store_vars, audit_log, bus, policies, nreq>>

\* A reset that clears the audit log with the maps.
StoreResetClearsAuditLog(t) ==
    /\ pc[t] = "reset_revision"
    /\ write(t, "revision_counter")
    /\ nodes' = <<>>
    /\ proposals' = <<>>
    /\ reviews' = <<>>
    /\ revision_counter' = 0
    /\ audit_log' = <<>>
    /\ Return(t, "reset", "", None)
    /\ UNCHANGED <<bus, policies, nreq>>

\* reset: `self.revision_counter.write()`, then the four clears.
StoreResetClear(t) ==
    /\ pc[t] = "reset_revision"
    /\ write(t, "revision_counter")
    /\ nodes' = <<>>
    /\ proposals' = <<>>
    /\ reviews' = <<>>
    /\ revision_counter' = 0
    /\ Return(t, "reset", "", None)
    /\ UNCHANGED <<audit_log, bus, policies, nreq>>

\* InMemoryStore::query_audit: the action and resource_id filters, then
\* skip(offset) and take(limit) (100 when absent).  Events carry no actor or
\* timestamp here, so those filters are always absent.
query_audit(log, query) ==
    LET filtered ==
            SelectSeq(log, LAMBDA e :
                /\ IsSome(query.action) => e.action = Unwrap(query.action)
                /\ IsSome(query.resource_id)
                       => e.resource_id = Unwrap(query.resource_id))
        off == IF IsSome(query.offset) THEN Unwrap(query.offset) ELSE 0
        lim == IF IsSome(query.limit) THEN Unwrap(query.limit) ELSE 100
        last == IF off + lim < Len(filtered) THEN off + lim ELSE Len(filtered)
    IN SubSeq(filtered, off + 1, last)

AuditQueryInputs ==
    [action : {None, Some("node_read"), Some("proposal_applied")},
     resource_id : {None, Some("p1")},
     limit : {None, Some(1)},
     offset : {None, Some(1)}]

StoreQueryAudit(t, query) ==
    /\ pc[t] = "idle"
    /\ Return(t, "query_audit", "", query_audit(audit_log, query))
    /\ UNCHANGED <<store_vars, audit_log, bus, policies>>

NextStore ==
    \E t \in Tasks :
        \/ \E proposal \in StoreProposalInputs :
               AcceptCall(t) /\ StoreCreateProposal(t, proposal)
        \/ \E id \in StoreProposalIds :
               AcceptCall(t)
               /\ StoreUpdateProposal(t, id, [status |-> Some("accepted")])
        \/ \E id \in StoreProposalIds :
               AcceptCall(t) /\ StoreWithdrawProposal(t, id)
        \/ \E review \in StoreReviewInputs :
               AcceptCall(t) /\ StoreSubmitReview(t, review)
        \/ StoreSubmitReviewPush(t)
        \/ \E id \in StoreProposalIds : AcceptCall(t) /\ StoreGetProposal(t, id)
        \/ AcceptCall(t) /\ StoreGetNode(t, NodeIdN1)
        \/ \E id \in StoreProposalIds :
               AcceptCall(t) /\ StoreGetReviewHistory(t, id)
        \/ \E event \in StoreAuditEvents :
               AcceptCall(t) /\ StoreAppendAudit(t, event)
        \/ \E query \in AuditQueryInputs :
               AcceptCall(t) /\ StoreQueryAudit(t, query)
        \/ \E id \in StoreProposalIds :
               AcceptCall(t) /\ StoreDetectConflicts(t, id)
        \/ \E proposal_ids \in StoreMergeInputs :
               AcceptCall(t) /\ StoreMergeProposals(t, proposal_ids)
        \/ \E id \in StoreProposalIds :
               AcceptCall(t) /\ StoreIsProposalStale(t, id)
        \/ StoreIsProposalStaleNodes(t)
        \/ \E id \in StoreProposalIds :
               AcceptCall(t) /\ read(t, "proposals")
               /\ ApplyProposal(t, DevUser, id, SeqClock)
        \/ read(t, "proposals") /\ ApplyCheckApplied(t)
        \/ read(t, "proposals") /\ read(t, "reviews") /\ ApplyRead(t)
        \/ write(t, "revision_counter") /\ ApplyRevision(t)
        \/ write(t, "nodes") /\ ApplyNodes(t)
        \/ write(t, "proposals") /\ ApplyMark(t)
        \/ ApplyAudit(t)
        \/ ApplyPublish(t)
        \/ AcceptCall(t) /\ StoreReset(t)
        \/ StoreResetProposals(t)
        \/ StoreResetReviews(t)
        \/ StoreResetClear(t)

SpecStore == Init /\ [][NextStore]_vars

\* ------------------------------------------- the functions, on drawn inputs

\* A caller that evaluates one function of the server on a store, a review
\* list and a policy configuration it finds: the initial states are the
\* inputs, and each action applies one function and answers with its result.

\* The longest review list drawn.
MaxReviews == 3

MinApprovalsZero == [type |-> "min_approvals", node_types |-> {}, min |-> 0]
MinApprovalsThreeDecision ==
    [type |-> "min_approvals", node_types |-> {"decision"}, min |-> 3]
RequiredReviewerLead ==
    [type |-> "required_reviewer_role", node_types |-> {}, role |-> "lead"]
RequiredReviewerArchitectGoal ==
    [type |-> "required_reviewer_role", node_types |-> {"goal"},
     role |-> "architect"]

ReviewPolicyRules ==
    { MinApprovalsZero, MinApprovalsTwo, MinApprovalsThreeDecision,
      RequiredReviewerLead, RequiredReviewerArchitectGoal,
      ChangeWindowWeekdays }

\* PolicyConfig.rules: up to two different rules, in either order.
ReviewPolicyConfigs ==
    { <<>> }
        \cup { <<r>> : r \in ReviewPolicyRules }
        \cup { <<r[1], r[2]>> :
               r \in { s \in ReviewPolicyRules \X ReviewPolicyRules :
                          s[1] # s[2] } }

\* The reviews of p1 a history may hold.
ReviewChoices ==
    [id : {"r1"}, proposal_id : {"p1"}, action : ReviewAction,
     reviewer_role : {None, Some("lead")}]

ReviewLists == UNION { [1..n -> ReviewChoices] : n \in 0..MaxReviews }

\* The reviewed proposal: one that creates the goal n1, one that updates it.
ReviewedProposals ==
    [id : {"p1"}, status : {"open"},
     operations : {<<OpCreateN1>>, <<OpUpdateN1>>}, applied : {None},
     base_versions : {None}]

\* A store holding proposal p1 and its review history under a policy
\* configuration.
InitReview ==
    /\ nodes = <<>>
    /\ proposals \in { [id \in {"p1"} |-> p] : p \in ReviewedProposals }
    /\ reviews \in { [id \in {"p1"} |-> rs] : rs \in ReviewLists }
    /\ revision_counter = 0
    /\ policies \in ReviewPolicyConfigs

\* The versions a stored node may have.
NodeVersions == {1, 2, 3}

\* The node that an applied Create of a client's node leaves in the store.
StoredNode(id, version) ==
    LET op == [type |-> "create", order |-> 1,
               node |-> [NodeN1 EXCEPT !.id = id, !.version = version - 1]]
    IN apply_operation(<<>>, op, "dev-user").nodes[node_key(id)]

\* Node maps holding n1, n2, both or neither.
StoreNodeMaps ==
    UNION { [ { node_key(id) : id \in ids } -> NodeVersions ] :
            ids \in SUBSET {NodeIdN1, NodeIdN2} }

StoredNodes(versions) ==
    [k \in DOMAIN versions |->
        StoredNode([id |-> k, namespace |-> None], versions[k])]

\* metadata.base_versions as a client records it: versions 1 or 2 of n1, of
\* n2 or of both, or nothing.
BaseVersionInputs ==
    {None}
        \cup { Some(b) :
               b \in UNION { [ { node_key(id) : id \in ids } -> {1, 2} ] :
                             ids \in (SUBSET {NodeIdN1, NodeIdN2}) \ {{}} } }

StaleProposals ==
    [id : {"p1"}, status : {"open"},
     operations : {<<OpUpdateN1>>, <<OpUpdateN1, OpUpdateN2>>},
     applied : {None}, base_versions : BaseVersionInputs]

\* A store holding proposal p1 and the nodes earlier applies left.
InitStale ==
    /\ nodes \in { StoredNodes(versions) : versions \in StoreNodeMaps }
    /\ proposals \in { [id \in {"p1"} |-> p] : p \in StaleProposals }
    /\ reviews = <<>>
    /\ revision_counter = 1
    /\ policies = <<>>

FnProposalIds == {"p1", "p2", "p3"}

\* The operation lists of the proposals compared and merged.
MergeOperationLists ==
    { <<>>, <<OpUpdateN1>>, <<OpUpdateN1Other>>, <<OpUpdateStatusN1>>,
      <<OpCreateN1>>, <<OpDeleteN1>>, <<OpStatusChangeN1>>,
      <<OpUpdateN1, OpUpdateN2>> }

MergeProposalChoices ==
    [status : {"open", "accepted"}, operations : MergeOperationLists]

\* proposal_ids as a caller passes them: stored or not.
FnMergeInputs ==
    { <<"p1">>, <<"p1", "p2">>, <<"p2", "p1">>, <<"p1", "p2", "p3">> }

\* A store holding p1, p1 and p2, or p1, p2 and p3.
InitMerge ==
    /\ nodes = <<>>
    /\ proposals \in
          { [id \in DOMAIN choice |->
                [id |-> id, status |-> choice[id].status,
                 operations |-> choice[id].operations, applied |-> None,
                 base_versions |-> None]] :
            choice \in UNION { [ids -> MergeProposalChoices] :
                               ids \in { {"p1"}, {"p1", "p2"},
                                         {"p1", "p2", "p3"} } } }
    /\ reviews = <<>>
    /\ revision_counter = 0
    /\ policies = <<>>

\* The operation lists applied: two or three of Create n1, Update n1 to
\* "world" and Update n1 to "there", each with order 1 or 2, in any list
\* position.
ApplyOperationLists ==
    LET operations ==
            { [op EXCEPT !.order = o] :
              op \in {OpCreateN1, OpUpdateN1, OpUpdateN1Other}, o \in {1, 2} }
    IN UNION { [1..n -> operations] : n \in 2..3 }

\* A store holding the Accepted proposal p1, with n1 stored or not.
InitApply ==
    /\ nodes \in { <<>>, StoredNodes([k \in {node_key(NodeIdN1)} |-> 1]) }
    /\ proposals \in
          { [id \in {"p1"} |->
                [id |-> id, status |-> "accepted", operations |-> ops,
                 applied |-> None]] : ops \in ApplyOperationLists }
    /\ reviews = <<>>
    /\ revision_counter = 0
    /\ policies = <<>>

\* The call the caller is about to make on the inputs it found.
FnCall(kind, arg) == [kind |-> kind, arg |-> arg]

\* The other task makes no call.
FnRequest(call) == [t \in Tasks |-> IF t = SeqTask THEN call ELSE NoReq]

InitFn ==
    /\ \/ InitReview /\ req = FnRequest(FnCall("evaluate_on_review", "p1"))
       \/ InitStale /\ req = FnRequest(FnCall("is_proposal_stale", "p1"))
       \/ InitMerge
          /\ req \in
                 { FnRequest(FnCall("detect_conflicts", id)) :
                   id \in FnProposalIds }
                     \cup { FnRequest(FnCall("merge_proposals", proposal_ids)) :
                            proposal_ids \in FnMergeInputs }
       \/ InitApply /\ req = FnRequest(FnCall("apply_proposal", "p1"))
    /\ audit_log = <<>>
    /\ bus = <<>>
    /\ pc = [t \in Tasks |-> "idle"]
    /\ loc = [t \in Tasks |-> NoLoc]
    /\ resp = NoResp
    /\ nreq = 0

\* The caller makes its call, once.
AcceptFn(kind) ==
    /\ pc[SeqTask] = "idle"
    /\ nreq = 0
    /\ nreq' = 1
    /\ req[SeqTask].kind = kind

\* routes.rs submit_review: policy::evaluate_on_review(&proposal, &reviews,
\* &state.policies) on the stored proposal and its history.
EvaluateOnReview(t, id) ==
    /\ pc[t] = "idle"
    /\ id \in DOMAIN proposals
    /\ id \in DOMAIN reviews
    /\ Return(t, "evaluate_on_review", "",
              evaluate_on_review(proposals[id], reviews[id], policies))
    /\ UNCHANGED <<store_vars, audit_log, bus, policies>>

NextFn ==
    \/ AcceptFn("evaluate_on_review")
       /\ EvaluateOnReview(SeqTask, req[SeqTask].arg)
    \/ AcceptFn("is_proposal_stale")
       /\ StoreIsProposalStale(SeqTask, req[SeqTask].arg)
    \/ StoreIsProposalStaleNodes(SeqTask)
    \/ AcceptFn("detect_conflicts")
       /\ StoreDetectConflicts(SeqTask, req[SeqTask].arg)
    \/ AcceptFn("merge_proposals")
       /\ StoreMergeProposals(SeqTask, req[SeqTask].arg)
    \/ AcceptFn("apply_proposal")
       /\ ApplyProposal(SeqTask, DevUser, req[SeqTask].arg, SeqClock)
    \/ ApplyCheckApplied(SeqTask)
    \/ ApplyRead(SeqTask)
    \/ ApplyRevision(SeqTask)
    \/ ApplyNodes(SeqTask)
    \/ ApplyMark(SeqTask)
    \/ ApplyAudit(SeqTask)
    \/ ApplyPublish(SeqTask)

SpecFn == InitFn /\ [][NextFn]_vars

\* ------------------------------------------------- reads of nodes over HTTP
\* GET /nodes/:id and GET /nodes by a sequential client on a store that
\* holds applied nodes of every sensitivity.

\* The reads the model stops after.
MaxReads == 1

\* sensitivity.rs: Sensitivity with its serde lowercase names.
Sensitivities == {"public", "internal", "confidential", "restricted"}

\* policy.rs: PolicyRule::EgressControl.
EgressControl(max_sensitivity) ==
    [type |-> "egress_control", max_sensitivity |-> max_sensitivity]

\* PolicyConfig values: no rule, one EgressControl rule, two of them.
ReadPolicyConfigs ==
    { <<>> }
    \cup { <<EgressControl(s)>> : s \in Sensitivities }
    \cup { <<EgressControl("restricted"), EgressControl("public")>> }

\* An agent whose token names no role (extract_actor gives it Reader).
AgentReader ==
    [actor_id |-> "agent-2", actor_type |-> "agent", roles |-> {"reader"}]
ReadActors == {AgentAdmin, AgentReader, HumanReader}

NodeContents == {"hello", "world"}

\* A node as apply stores it: the content hash is that of the content.
AppliedNode(id, status, content, sensitivity) ==
    [NodeN1 EXCEPT !.id = id, !.status = status, !.content = content,
                   !.sensitivity = sensitivity,
                   !.content_hash = Some(content_hash(content))]

\* The nodes maps read: n1 (accepted) and n2 (proposed), each absent or
\* stored with any content and any sensitivity, set or not.
ReadNodeMaps ==
    LET choices == [content : NodeContents,
                    sensitivity : {None} \cup {Some(s) : s \in Sensitivities}]
        node(k, c) ==
            IF k = node_key(NodeIdN1)
            THEN AppliedNode(NodeIdN1, "accepted", c.content, c.sensitivity)
            ELSE AppliedNode(NodeIdN2, "proposed", c.content, c.sensitivity)
    IN { [k \in DOMAIN choice |-> node(k, choice[k])] :
         choice \in UNION { [keys -> choices] :
                            keys \in SUBSET {node_key(NodeIdN1),
                                             node_key(NodeIdN2)} } }

\* The :id path segments requested.
ReadPathIds == { <<"n1">>, <<"n2">> }

\* NodeQueryParams after the handler has parsed status.
NodeQueryInputs ==
    [status : {None, Some({"accepted"})}, limit : {None, Some(1)},
     offset : {None, Some(1)}]

\* The orders in which HashMap::values may yield the nodes.
IterationOrders(ns) ==
    { [i \in 1..Cardinality(DOMAIN ns) |-> ns[order[i]]] :
      order \in { o \in [1..Cardinality(DOMAIN ns) -> DOMAIN ns] :
                    \A i, j \in DOMAIN o : i # j => o[i] # o[j] } }

\* InMemoryStore::query_nodes on the nodes in iteration order (status, limit
\* and offset are the fields the handler sets).  The slice list[offset..end]
\* panics when offset is beyond the filtered list.
query_nodes(list, query) ==
    LET kept == IF IsSome(query.status)
                THEN SelectSeq(list, LAMBDA n : n.status \in Unwrap(query.status))
                ELSE list
        total == Len(kept)
        limit == IF IsSome(query.limit)
                 THEN (IF Unwrap(query.limit) < 1000 THEN Unwrap(query.limit)
                       ELSE 1000)
                 ELSE 50
        offset == IF IsSome(query.offset) THEN Unwrap(query.offset) ELSE 0
        end == IF offset + limit < Len(kept) THEN offset + limit ELSE Len(kept)
    IN IF offset > end
       THEN [err |-> "panic", nodes |-> <<>>, total |-> total,
             limit |-> limit, offset |-> offset, has_more |-> FALSE]
       ELSE [err |-> "", nodes |-> SubSeq(kept, offset + 1, end),
             total |-> total, limit |-> limit, offset |-> offset,
             has_more |-> end < total]

\* An agent_can_read that excludes the maximum itself.
agent_can_read_below(content_sensitivity, max_agent_sensitivity) ==
    sensitivity_rank(content_sensitivity)
        < sensitivity_rank(max_agent_sensitivity)

\* sensitivity.rs: agent_can_read.
agent_can_read(content_sensitivity, max_agent_sensitivity) ==
    sensitivity_rank(content_sensitivity)
        <= sensitivity_rank(max_agent_sensitivity)

\* node.metadata.sensitivity.unwrap_or(Sensitivity::Internal).
node_sensitivity(node) ==
    IF IsSome(node.sensitivity) THEN Unwrap(node.sensitivity) ELSE "internal"

\* routes.rs: get_node: the response and the audit events appended.
get_node_handler(actor, rules, ns, id) ==
    LET node_id == [id |-> id, namespace |-> None]
        found == get_node(ns, node_id)
        node == Unwrap(found)
        max_sensitivity == agent_max_sensitivity(rules)
    IN IF ~require_role(actor, "reader")
       THEN [error |-> "Forbidden", status |-> 403, body |-> <<>>,
             audit |-> <<>>]
       ELSE IF ~IsSome(found)
       THEN [error |-> "ApiNotFound", status |-> 404, body |-> <<>>,
             audit |-> <<>>]
       ELSE IF /\ actor.actor_type = "agent"
               /\ ~agent_can_read(node_sensitivity(node), max_sensitivity)
       THEN [error |-> "", status |-> 200,
             body |-> [id |-> node.id, type |-> node.node_type,
                       status |-> node.status, redacted |-> TRUE,
                       reason |-> "sensitivity",
                       metadata |->
                           [sensitivity |-> node_sensitivity(node)]],
             audit |-> <<AuditEvent("sensitive_read", id, "denied")>>]
       ELSE [error |-> "", status |-> 200, body |-> node,
             audit |->
                 IF /\ actor.actor_type = "agent"
                    /\ sensitivity_rank(node_sensitivity(node))
                         >= sensitivity_rank("confidential")
                 THEN <<AuditEvent("sensitive_read", id, "success")>>
                 ELSE <<>>]

\* query_nodes (handler): the audit events of the nodes an agent is shown.
RECURSIVE sensitive_reads(_)
sensitive_reads(shown) ==
    IF shown = <<>> THEN <<>>
    ELSE (IF sensitivity_rank(node_sensitivity(Head(shown)))
               >= sensitivity_rank("confidential")
          THEN <<AuditEvent("sensitive_read", node_key(Head(shown).id),
                            "success")>>
          ELSE <<>>)
         \o sensitive_reads(Tail(shown))

\* routes.rs: query_nodes: the response and the audit events appended, for
\* the nodes in iteration order.
query_nodes_handler(actor, rules, list, params) ==
    LET result == query_nodes(list, params)
        max_sensitivity == agent_max_sensitivity(rules)
        filtered_nodes ==
            SelectSeq(result.nodes,
                      LAMBDA n : agent_can_read(node_sensitivity(n),
                                                max_sensitivity))
        redacted_count == Len(result.nodes) - Len(filtered_nodes)
        page(shown) ==
            [total |-> result.total, limit |-> result.limit,
             offset |-> result.offset, has_more |-> result.has_more,
             nodes |-> shown]
    IN IF ~require_role(actor, "reader")
       THEN [error |-> "Forbidden", status |-> 403, body |-> <<>>,
             audit |-> <<>>]
       ELSE IF result.err # ""
       THEN [error |-> result.err, status |-> 0, body |-> <<>>,
             audit |-> <<>>]
       ELSE IF actor.actor_type = "agent"
       THEN [error |-> "", status |-> 200, body |-> page(filtered_nodes),
             audit |->
                 sensitive_reads(filtered_nodes)
                 \o (IF redacted_count > 0
                     THEN <<AuditEvent("sensitive_read", "query_nodes",
                                       "denied")>>
                     ELSE <<>>)]
       ELSE [error |-> "", status |-> 200, body |-> page(result.nodes),
             audit |-> <<>>]

\* The server was started with some egress policy and the store holds
\* applied nodes.
InitRead ==
    /\ nodes \in ReadNodeMaps
    /\ proposals = <<>>
    /\ reviews = <<>>
    /\ revision_counter = 0
    /\ audit_log = <<>>
    /\ bus = <<>>
    /\ policies \in ReadPolicyConfigs
    /\ pc = [t \in Tasks |-> "idle"]
    /\ req = [t \in Tasks |-> NoReq]
    /\ loc = [t \in Tasks |-> NoLoc]
    /\ resp = NoResp
    /\ nreq = 0

\* The client sends its next read; the model stops after MaxReads reads.
AcceptRead ==
    /\ pc[SeqTask] = "idle"
    /\ nreq < MaxReads
    /\ nreq' = nreq + 1

\* The handler answers actor and appends its audit events.
Answer(t, actor, method, r) ==
    /\ resp' = [task |-> t, actor |-> actor, method |-> method,
                status |-> r.status, error |-> r.error, body |-> r.body]
    /\ audit_log' = audit_log \o r.audit
    /\ UNCHANGED <<store_vars, bus, policies, pc, req, loc>>

\* GET /nodes/:id.
GetNode(t, actor, id) ==
    /\ pc[t] = "idle"
    /\ Answer(t, actor, "get_node", get_node_handler(actor, policies, nodes, id))

\* GET /nodes.
QueryNodes(t, actor, params) ==
    /\ pc[t] = "idle"
    /\ \E list \in IterationOrders(nodes) :
           Answer(t, actor, "query_nodes",
                  query_nodes_handler(actor, policies, list, params))

NextRead ==
    \/ \E actor \in ReadActors, id \in ReadPathIds :
           AcceptRead /\ GetNode(SeqTask, actor, id)
    \/ \E actor \in ReadActors, params \in NodeQueryInputs :
           AcceptRead /\ QueryNodes(SeqTask, actor, params)

SpecRead == InitRead /\ [][NextRead]_vars

\* ------------------------------------------- the gates in front of the store
\* One sequential client that authenticates as actors of every role and
\* type, against servers started with agent policies.

\* The requests the model stops after.
MaxGateRequests == 3

\* ActorContext values: a human of each role, one holding two roles, and
\* agents holding the lowest and the highest role.
GateActors ==
    { [actor_id |-> "human-" \o r, actor_type |-> "human", roles |-> {r}] :
      r \in {"reader", "contributor", "reviewer", "applier", "admin"} }
    \cup { [actor_id |-> "human-2", actor_type |-> "human",
            roles |-> {"reader", "reviewer"}],
           AgentAdmin, AgentReader }

\* policy.rs: PolicyRule::AgentRestriction.
AgentRestriction(blocked_actions) ==
    [type |-> "agent_restriction", blocked_actions |-> blocked_actions]

\* PolicyConfig values: no rule, agents limited to public nodes, agents
\* barred from applying, agents barred from applying and creating with a
\* change window.
GatePolicyConfigs ==
    { <<>>, <<EgressControl("public")>>, <<AgentRestriction({"apply"})>>,
      <<AgentRestriction({"apply", "create"}), ChangeWindowWeekdays>> }

\* The bodies of POST /proposals: one Create of n1 whose
\* metadata.sensitivity is unset, public or confidential.
GateProposalInputs ==
    [id : ProposalIds, status : {"open", "accepted"},
     operations :
         { << [OpCreateN1 EXCEPT !.node.sensitivity = s] >> :
           s \in {None, Some("public"), Some("confidential")} },
     applied : {None}]

\* routes.rs: query_audit (GET /audit): Admin only; answers the events.
QueryAudit(t, actor) ==
    /\ pc[t] = "idle"
    /\ IF ~require_role(actor, "admin")
       THEN Fail(t, "Forbidden")
       ELSE Succeed(t, 200)
    /\ UNCHANGED <<store_vars, audit_log, bus, policies>>

InitGate ==
    /\ nodes = <<>>
    /\ proposals = <<>>
    /\ reviews = <<>>
    /\ revision_counter = 0
    /\ audit_log = <<>>
    /\ bus = <<>>
    /\ policies \in GatePolicyConfigs
    /\ pc = [t \in Tasks |-> "idle"]
    /\ req = [t \in Tasks |-> NoReq]
    /\ loc = [t \in Tasks |-> NoLoc]
    /\ resp = NoResp
    /\ nreq = 0

\* The client sends its next request; the model stops after MaxGateRequests.
AcceptGate ==
    /\ pc[SeqTask] = "idle"
    /\ nreq < MaxGateRequests
    /\ nreq' = nreq + 1

NextGate ==
    \/ \E actor \in GateActors, proposal \in GateProposalInputs :
           AcceptGate /\ CreateProposal(SeqTask, actor, proposal)
    \/ CreateProposalAudit(SeqTask)
    \/ CreateProposalPublish(SeqTask)
    \/ \E actor \in GateActors, id \in ProposalIds :
           AcceptGate
           /\ UpdateProposal(SeqTask, actor, id, [status |-> Some("accepted")])
    \/ UpdateProposalAudit(SeqTask)
    \/ UpdateProposalPublish(SeqTask)
    \/ \E actor \in GateActors, id \in ProposalIds, review \in ReviewInputs :
           AcceptGate /\ SubmitReview(SeqTask, actor, id, review)
    \/ SubmitReviewAudit(SeqTask)
    \/ SubmitReviewPublish(SeqTask)
    \/ SubmitReviewGetProposal(SeqTask)
    \/ SubmitReviewGetHistory(SeqTask)
    \/ SubmitReviewUpdate(SeqTask)
    \/ SubmitReviewPolicyAudit(SeqTask)
    \/ \E actor \in GateActors, id \in ProposalIds, clock \in Clock :
           AcceptGate /\ ApplyProposal(SeqTask, actor, id, clock)
    \/ ApplyViolationAudit(SeqTask)
    \/ ApplyCheckApplied(SeqTask)
    \/ ApplyRead(SeqTask)
    \/ ApplyRevision(SeqTask)
    \/ ApplyNodes(SeqTask)
    \/ ApplyMark(SeqTask)
    \/ ApplyAudit(SeqTask)
    \/ ApplyPublish(SeqTask)
    \/ \E actor \in GateActors, id \in ProposalIds :
           AcceptGate /\ WithdrawProposal(SeqTask, actor, id)
    \/ WithdrawProposalAudit(SeqTask)
    \/ WithdrawProposalPublish(SeqTask)
    \/ \E actor \in GateActors : AcceptGate /\ ResetStore(SeqTask, actor)
    \/ ResetStoreAudit(SeqTask)
    \/ ResetStorePublish(SeqTask)
    \/ \E actor \in GateActors : AcceptGate /\ QueryAudit(SeqTask, actor)

SpecGate == InitGate /\ [][NextGate]_vars

\* ------------------------------------------------------ concurrent applies

\* The store after one apply: p0, which created n1, is Applied at rev_1.
AppliedP0 ==
    apply_mark([id \in {"p0"} |->
                   [id |-> id, status |-> "accepted",
                    operations |-> <<OpCreateN1>>, applied |-> None]],
               "p0",
               [applied_by |-> "dev-user", last_review_id |-> None,
                previous_revision_id |-> rev_id(0),
                applied_to_revision_id |-> rev_id(1)])
NodesAtRev1 == apply_operations(<<>>, <<OpCreateN1>>, "dev-user").nodes

\* The operation lists of the two Accepted proposals: each touches n1.
TouchN1Lists ==
    { <<OpUpdateN1>>, <<OpUpdateN1Other>>, <<OpUpdateStatusN1>>,
      <<OpDeleteN1>>, <<OpStatusChangeN1>> }

\* Two Accepted proposals wait in the store of rev_1; both tasks are idle.
InitConcurrentApply ==
    /\ nodes = NodesAtRev1
    /\ proposals \in
          { Insert(Insert(AppliedP0, "p1",
                          [id |-> "p1", status |-> "accepted",
                           operations |-> ops1, applied |-> None]),
                   "p2",
                   [id |-> "p2", status |-> "accepted",
                    operations |-> ops2, applied |-> None]) :
              ops1 \in TouchN1Lists, ops2 \in TouchN1Lists }
    /\ reviews = <<>>
    /\ revision_counter = 1
    /\ audit_log = <<>>
    /\ bus = <<>>
    /\ policies = <<>>
    /\ pc = [t \in Tasks |-> "idle"]
    /\ req = [t \in Tasks |-> NoReq]
    /\ loc = [t \in Tasks |-> NoLoc]
    /\ resp = NoResp
    /\ nreq = 0

\* Two tasks call apply_proposal; each section of the call takes its lock.
NextConcurrentApply ==
    \E t \in Tasks :
        \/ \E id \in StoreProposalIds :
               AcceptCall(t) /\ read(t, "proposals")
               /\ ApplyProposal(t, DevUser, id, SeqClock)
        \/ read(t, "proposals") /\ ApplyCheckApplied(t)
        \/ read(t, "proposals") /\ read(t, "reviews") /\ ApplyRead(t)
        \/ write(t, "revision_counter") /\ ApplyRevision(t)
        \/ write(t, "nodes") /\ ApplyNodes(t)
        \/ write(t, "proposals") /\ ApplyMark(t)
        \/ ApplyAudit(t)
        \/ ApplyPublish(t)

SpecConcurrentApply == InitConcurrentApply /\ [][NextConcurrentApply]_vars

\* ------------------------------------------------------------------ claims

\* The step is taken by task t (one task moves per step).
StepOf(t) == pc'[t] # pc[t]

\* Proposal p is stored before and after the step and its status changes.
StatusChanges(p) ==
    /\ p \in DOMAIN proposals
    /\ p \in DOMAIN proposals'
    /\ proposals'[p].status # proposals[p].status

\* C1: whatever the interleaving of apply, PATCH, review, withdraw and reset
\* requests, a stored proposal's status becomes Applied only in a step that
\* starts with the status Accepted.
C1_AppliedOnlyFromAccepted ==
    [][\A p \in ProposalIds :
          (StatusChanges(p) /\ proposals'[p].status = "applied")
              => proposals[p].status = "accepted"]_vars

\* A state a concurrent reader can observe in the middle of an apply: the
\* call has incremented the revision counter (and may have mutated nodes)
\* while the proposal is still Accepted without AppliedMetadata.
PartialApplyVisible ==
    \E t \in Tasks :
        /\ pc[t] \in {"apply_nodes", "apply_mark"}
        /\ req[t].id \in DOMAIN proposals
        /\ proposals[req[t].id].status = "accepted"
        /\ proposals[req[t].id].applied = None

\* C2: apply_proposal is atomic to concurrent readers: no reachable state
\* shows the revision counter incremented or nodes mutated by an apply whose
\* proposal is still Accepted without AppliedMetadata.
C2_ApplyAtomic == ~PartialApplyVisible

\* C3: when an operation fails during apply_proposal (the node loop returns
\* an error), the step leaves every node as it was and the revision counter
\* is back at its value before the call; the proposal is not touched.
C3_FailedApplyRollsBack ==
    [][\A t \in Tasks :
          (pc[t] = "apply_nodes" /\ StepOf(t) /\ resp'.error # "")
              => /\ nodes' = nodes
                 /\ proposals' = proposals
                 /\ rev_id(revision_counter') = loc[t].previous_revision_id]_vars

\* C4: the operations of a proposal are executed at most once per proposal
\* id: no apply_proposal call increments the revision counter for an id while
\* another call that has incremented it for the same id is still applying.
C4_AppliedAtMostOnce ==
    [][\A t \in Tasks :
          (pc[t] = "apply_revision" /\ StepOf(t))
              => ~ \E u \in Tasks \ {t} :
                       /\ pc[u] \in {"apply_nodes", "apply_mark"}
                       /\ req[u].id = req[t].id]_vars

\* C5: apply_proposal on a stored proposal whose status is already Applied
\* returns Ok (the handler goes on to its success audit) and leaves nodes,
\* the revision counter, the proposal and the review history unchanged; the
\* same call on a FileStore holding the same maps returns Ok and the same
\* maps and counter.
C5_ApplyIdempotent ==
    [][\A t \in Tasks :
          ( /\ pc[t] = "apply_check_applied"
            /\ StepOf(t)
            /\ req[t].id \in DOMAIN proposals
            /\ proposals[req[t].id].status = "applied" )
              => /\ pc'[t] = "apply_audit"
                 /\ UNCHANGED <<nodes, proposals, reviews, revision_counter>>
                 /\ FileStore_apply_proposal(proposals, nodes, revision_counter,
                                             req[t].id, loc[t].applied_by)
                      = [err |-> "", proposals |-> proposals, nodes |-> nodes,
                         revision_counter |-> revision_counter]]_vars

\* A second apply of p1 has returned Ok from the store: the first apply made
\* revision rev_1 and logged proposal_applied, the counter is still 1.
C5_SecondApplyReturned ==
    \E t \in Tasks :
        /\ pc[t] = "apply_audit"
        /\ req[t].id = "p1"
        /\ IsSome(loc[t].proposal)
        /\ Unwrap(loc[t].proposal).status = "applied"
        /\ "p1" \in DOMAIN proposals
        /\ proposals["p1"].status = "applied"
        /\ IsSome(proposals["p1"].applied)
        /\ Unwrap(proposals["p1"].applied).applied_to_revision_id = rev_id(1)
        /\ revision_counter = 1
        /\ \E i \in 1..Len(audit_log) :
               audit_log[i] = AuditEvent("proposal_applied", "p1", "success")

\* The apply handler of task t found the proposal Applied when it started,
\* the policy allowed the apply, and the stored proposal is still the one
\* the handler read.
AlreadyAppliedAtStart(t) ==
    /\ req[t].kind = "apply"
    /\ pc[t] # "apply_violation_audit"
    /\ IsSome(loc[t].proposal)
    /\ Unwrap(loc[t].proposal).status = "applied"
    /\ get_proposal(proposals, req[t].id) = loc[t].proposal

\* C6: a POST /proposals/{id}/apply on an already Applied proposal leaves the
\* store, the audit log (no new proposal_applied event) and the event bus
\* unchanged.
C6_SecondApplyNoEffect ==
    [][\A t \in Tasks :
          (AlreadyAppliedAtStart(t) /\ StepOf(t))
              => UNCHANGED <<nodes, proposals, reviews, revision_counter,
                             audit_log, bus>>]_vars

\* Number of accept reviews in a review history.
accept_count(history) ==
    Cardinality({i \in 1..Len(history) : history[i].action = "accept"})

\* The step belongs to a submit_review handler.
ReviewStep ==
    \E t \in Tasks : StepOf(t) /\ (req[t].kind = "review" \/ req'[t].kind = "review")

\* C7: under a MinApprovals rule with min = n that applies to the proposal,
\* a step of the review endpoint never sets the status to Accepted while
\* the proposal has fewer than n accept reviews.
C7_MinApprovalsEnforced ==
    [][\A p \in ProposalIds : \A i \in 1..Len(policies) :
          ( /\ ReviewStep
            /\ StatusChanges(p)
            /\ proposals'[p].status = "accepted"
            /\ policies[i].type = "min_approvals"
            /\ \/ policies[i].node_types = {}
               \/ proposal_touches_node_types(proposals'[p], policies[i].node_types) )
              => accept_count(get_review_history(reviews', p)) >= policies[i].min]_vars

\* C8: every stored proposal whose status is Applied has AppliedMetadata.
C8_AppliedHasMetadata ==
    \A p \in DOMAIN proposals :
        proposals[p].status = "applied" => IsSome(proposals[p].applied)

\* C9: Applied is terminal: a stored proposal that is Applied stays Applied
\* for as long as it is stored (only reset removes it).
C9_AppliedTerminal ==
    [][\A p \in ProposalIds :
          (p \in DOMAIN proposals /\ proposals[p].status = "applied"
             /\ p \in DOMAIN proposals')
              => proposals'[p].status = "applied"]_vars

\* The edges of the proposal lifecycle.
LifecycleEdges ==
    { <<"open", "accepted">>, <<"open", "rejected">>,
      <<"open", "withdrawn">>, <<"accepted", "applied">> }

\* C10: every status change of a stored proposal is one of Open->Accepted,
\* Open->Rejected, Open->Withdrawn, Accepted->Applied.
C10_LifecycleEdgesOnly ==
    [][\A p \in ProposalIds :
          StatusChanges(p)
              => <<proposals[p].status, proposals'[p].status>> \in LifecycleEdges]_vars

\* The PATCH bodies that no store may accept: status "applied" and an
\* unknown status name.
RefusedPatches == { [status |-> Some("applied")], [status |-> Some("bogus")] }

\* C11: update_proposal with status "applied" or with an unknown status name
\* returns Invalid and leaves the proposal unchanged, whatever the current
\* status of the proposal, in the in-memory store and in the file store.
C11_PatchAppliedRefused ==
    \A p \in DOMAIN proposals : \A updates \in RefusedPatches :
        /\ update_proposal(proposals, p, updates)
             = [err |-> "StoreInvalid", proposals |-> proposals]
        /\ FileStore_update_proposal(proposals, p, updates)
             = [err |-> "StoreInvalid", proposals |-> proposals]

\* The applied_to_revision_id of the latest apply recorded in the store:
\* the greatest one among the stored AppliedMetadata, rev_0 when none.
LastAppliedTo(ps) ==
    LET recorded == { Unwrap(ps[p].applied).applied_to_revision_id :
                        p \in { q \in DOMAIN ps : IsSome(ps[q].applied) } }
    IN IF recorded = {} THEN rev_id(0)
       ELSE CHOOSE r \in recorded : \A o \in recorded : r[2] >= o[2]

\* C12: every successful apply records a previous_revision_id equal to the
\* applied_to_revision_id recorded by the successful apply before it (rev_0
\* for the first) and a greater applied_to_revision_id, also when failed
\* applies happened in between.
C12_RevisionChain ==
    [][\A t \in Tasks :
          (pc[t] = "apply_mark" /\ StepOf(t) /\ req[t].id \in DOMAIN proposals)
              => /\ loc[t].previous_revision_id = LastAppliedTo(proposals)
                 /\ loc[t].applied_to_revision_id[2]
                      > loc[t].previous_revision_id[2]]_vars

\* The node key an operation is about.
OperationKey(op) ==
    IF op.type = "create" THEN node_key(op.node.id) ELSE node_key(op.node_id)

\* Task t's step is the node section of an apply that goes on to success and
\* one of its operations is about key k.
AppliesTo(t, k) ==
    /\ pc[t] = "apply_nodes"
    /\ pc'[t] = "apply_mark"
    /\ \E i \in 1..Len(loc[t].sorted_ops) : OperationKey(loc[t].sorted_ops[i]) = k

\* C13: the version of a node never decreases while the node exists, and a
\* successful apply that touches an existing node (Create on its key, Update,
\* Delete or StatusChange) leaves it with a strictly greater version.
C13_VersionIncreases ==
    [][\A k \in DOMAIN nodes :
          /\ k \in DOMAIN nodes' => nodes'[k].version >= nodes[k].version
          /\ (\E t \in Tasks : AppliesTo(t, k))
                => /\ k \in DOMAIN nodes'
                   /\ nodes'[k].version > nodes[k].version]_vars

\* C14: in every reachable state, a stored node that has a content hash has
\* the hash of its current content, after applied Create, Update (content
\* and/or status), Delete and StatusChange operations.
C14_ContentHashMatches ==
    \A k \in DOMAIN nodes :
        IsSome(nodes[k].content_hash)
            => nodes[k].content_hash = Some(content_hash(nodes[k].content))

\* Node n1 after an Update changed its content (version 3: created, then
\* updated), with the hash of the new content.
C14_UpdatedNodeHashed ==
    /\ <<"n1">> \in DOMAIN nodes
    /\ nodes[<<"n1">>].content = "world"
    /\ nodes[<<"n1">>].version >= 3
    /\ nodes[<<"n1">>].content_hash = Some(<<"sha256", "world">>)

\* Some stored proposal that an apply has marked (it carries
\* AppliedMetadata) has an operation about node key k.
WrittenBySuccessfulApply(k) ==
    \E p \in DOMAIN proposals :
        /\ IsSome(proposals[p].applied)
        /\ \E i \in 1..Len(proposals[p].operations) :
               OperationKey(proposals[p].operations[i]) = k

\* C15: once no apply is between its node section and its proposal section,
\* every stored node with status accepted was written by an apply that
\* succeeded: none is left by an apply that returned an error or that a
\* reset overtook.
C15_AcceptedNodesFromSuccessfulApply ==
    (\A t \in Tasks : pc[t] # "apply_mark")
        => \A k \in DOMAIN nodes :
               nodes[k].status = "accepted" => WrittenBySuccessfulApply(k)

\* C16: a step that changes the node map or the revision counter is the
\* revision section or the nodes section of an apply_proposal, or the clearing
\* step of a reset: create_proposal, update_proposal, submit_review,
\* withdraw_proposal, append_audit, detect_conflicts, is_proposal_stale,
\* merge_proposals and the reads leave both unchanged.
C16_NodesChangedOnlyByApplyAndReset ==
    [][(nodes' # nodes \/ revision_counter' # revision_counter)
       => \E t \in Tasks :
              /\ pc[t] \in {"apply_revision", "apply_nodes", "reset_revision"}
              /\ pc'[t] # pc[t]]_vars

\* C16 witness: after an apply wrote n1 at revision 1, a get_node call
\* returned that node.
C16_ReadAfterApply ==
    /\ revision_counter = 1
    /\ node_key(NodeIdN1) \in DOMAIN nodes
    /\ resp.task \in Tasks
    /\ "method" \in DOMAIN resp
    /\ resp.method = "get_node"
    /\ resp.value = Some(nodes[node_key(NodeIdN1)])

\* Task a waits for a lock that task b holds in a conflicting mode.
WaitsFor(a, b) ==
    \E w \in Waits(a), h \in Holds(b) : Blocks(h, w)

\* C17: the store's methods take their locks in one order, so no two
\* concurrent calls ever wait for each other: there is no state in which two
\* tasks each hold a lock the other one is waiting for.
C17_NoDeadlock ==
    ~ \E a, b \in Tasks : a # b /\ WaitsFor(a, b) /\ WaitsFor(b, a)

\* C18: an apply_proposal and a concurrent reset leave the store as one of
\* their two sequential orders does.  Both orders end with the store reset
\* (apply then reset clears what the apply wrote; reset then apply finds no
\* proposal and writes nothing), and nothing but apply_proposal writes nodes
\* or the revision counter afterwards, which needs a stored proposal.  So
\* once every call has returned, a store without proposals has no nodes and
\* its revision counter is 0.
C18_ApplyResetSerializable ==
    ((\A t \in Tasks : pc[t] = "idle") /\ proposals = <<>>)
        => (nodes = <<>> /\ revision_counter = 0)

\* The status the claim gives an Open proposal after a review.
StatusAfterReview(action) ==
    IF action = "accept" THEN "accepted"
    ELSE IF action = "reject" THEN "rejected"
    ELSE "open"

\* C19: in every reachable store, submit_review of a review whose proposal
\* is missing or not Open returns an error and leaves proposals and reviews
\* as they are; for an Open proposal it returns Ok, sets the status to
\* Accepted for accept, Rejected for reject and Open for request_changes, and
\* the proposal's history becomes the old one with the review appended.  A
\* call enters its second half only for an Open proposal, and when it
\* returns get_review_history ends with the review and the status is the one
\* the action asks for.
C19_SubmitReviewContract ==
    [][/\ \A review \in StoreReviewInputs :
             LET r == submit_review(proposals, reviews, review)
                 id == review.proposal_id
             IN IF id \in DOMAIN proposals /\ proposals[id].status = "open"
                THEN /\ r.err = ""
                     /\ r.proposals =
                            [proposals EXCEPT
                               ![id].status = StatusAfterReview(review.action)]
                     /\ get_review_history(r.reviews, id) =
                            Append(get_review_history(reviews, id), review)
                     /\ \A o \in DOMAIN reviews \ {id} :
                            get_review_history(r.reviews, o) = reviews[o]
                ELSE /\ r.err # ""
                     /\ r.proposals = proposals
                     /\ r.reviews = reviews
       /\ \A t \in Tasks :
             /\ (pc[t] = "idle" /\ pc'[t] = "review_reviews")
                    => /\ req'[t].id \in DOMAIN proposals
                       /\ proposals[req'[t].id].status = "open"
                       /\ reviews' = reviews
             /\ (pc[t] = "review_reviews" /\ pc'[t] = "idle")
                    => LET id == req[t].id
                           history == get_review_history(reviews', id)
                       IN /\ resp'.error = ""
                          /\ history =
                                 Append(get_review_history(reviews, id),
                                        req[t].review)
                          /\ history[Len(history)] = req[t].review
                          /\ id \in DOMAIN proposals'
                          /\ proposals'[id].status =
                                 StatusAfterReview(req[t].review.action)]_vars

\* C19 witness: p1 was reviewed twice while Open, first with request_changes
\* and then with accept, and is Accepted now, so that any further review of
\* it is one of a proposal that is not Open.
C19_ReviewedTwice ==
    /\ \A t \in Tasks : pc[t] = "idle"
    /\ "p1" \in DOMAIN proposals
    /\ proposals["p1"].status = "accepted"
    /\ "p1" \in DOMAIN reviews
    /\ Len(reviews["p1"]) = 2
    /\ reviews["p1"][1].action = "request-changes"
    /\ reviews["p1"][2].action = "accept"
    /\ "method" \in DOMAIN resp
    /\ resp.method = "submit_review"
    /\ resp.error = ""

\* The step is a call of withdraw_proposal by task t that returns err.
WithdrawReturns(t, err) ==
    /\ pc[t] = "idle"
    /\ nreq' = nreq + 1
    /\ "method" \in DOMAIN resp'
    /\ resp'.task = t
    /\ resp'.method = "withdraw_proposal"
    /\ resp'.error = err

\* C20: in every reachable store, withdraw_proposal of an Open proposal
\* returns Ok and sets its status to Withdrawn, and of an Accepted, Rejected,
\* Withdrawn or Applied proposal returns Invalid and changes nothing.  A call
\* that returns Ok has turned one Open proposal into a Withdrawn one and
\* nothing else; a call that returns an error has left every proposal as it
\* was.
C20_WithdrawOnlyFromOpen ==
    [][/\ \A id \in DOMAIN proposals :
             LET r == withdraw_proposal(proposals, id) IN
             IF proposals[id].status = "open"
             THEN /\ r.err = ""
                  /\ r.proposals =
                         [proposals EXCEPT ![id].status = "withdrawn"]
             ELSE /\ proposals[id].status \in
                         {"accepted", "rejected", "withdrawn", "applied"}
                  /\ r.err = "StoreInvalid"
                  /\ r.proposals = proposals
       /\ \A t \in Tasks :
             /\ WithdrawReturns(t, "")
                    => \E id \in DOMAIN proposals :
                           /\ proposals[id].status = "open"
                           /\ proposals' =
                                  [proposals EXCEPT ![id].status = "withdrawn"]
             /\ (\E err \in {"StoreInvalid", "StoreNotFound"} :
                     WithdrawReturns(t, err))
                    => proposals' = proposals
             /\ WithdrawReturns(t, resp'.error)
                    => resp'.error \in {"", "StoreInvalid", "StoreNotFound"}]_vars

\* C20 witness: withdraw_proposal was called on the Applied proposal p1, the
\* only proposal stored, and returned Invalid.
C20_WithdrawAppliedRefused ==
    /\ DOMAIN proposals = {"p1"}
    /\ proposals["p1"].status = "applied"
    /\ IsSome(proposals["p1"].applied)
    /\ "method" \in DOMAIN resp
    /\ resp.method = "withdraw_proposal"
    /\ resp.error = "StoreInvalid"

\* The step is a call of the store method by task t that returns err at once.
CallReturns(t, method, err) ==
    /\ pc[t] = "idle"
    /\ nreq' = nreq + 1
    /\ "method" \in DOMAIN resp'
    /\ resp'.task = t
    /\ resp'.method = method
    /\ resp'.error = err

\* C21: in every reachable store, create_proposal of a proposal whose id is
\* stored returns Conflict and leaves the proposals as they are, and of one
\* whose id is not stored returns Ok and stores it.  A call that returns Ok
\* has stored a proposal whose id was not stored before the call, so of two
\* callers with the same id the first to take the lock succeeds and the other
\* gets Conflict; a call that returns Conflict has changed no proposal.
C21_CreateConflict ==
    [][/\ \A proposal \in StoreProposalInputs :
             LET r == create_proposal(proposals, proposal) IN
             IF proposal.id \in DOMAIN proposals
             THEN r.err = "StoreConflict" /\ r.proposals = proposals
             ELSE /\ r.err = ""
                  /\ DOMAIN r.proposals = DOMAIN proposals \cup {proposal.id}
                  /\ r.proposals[proposal.id] = proposal
                  /\ \A o \in DOMAIN proposals : r.proposals[o] = proposals[o]
       /\ \A t \in Tasks :
             /\ CallReturns(t, "create_proposal", "")
                    => \E proposal \in StoreProposalInputs :
                           /\ proposal.id \notin DOMAIN proposals
                           /\ proposals' =
                                  Insert(proposals, proposal.id, proposal)
             /\ CallReturns(t, "create_proposal", "StoreConflict")
                    => proposals' = proposals
             /\ CallReturns(t, "create_proposal", resp'.error)
                    => resp'.error \in {"", "StoreConflict"}]_vars

\* C21 witness: both tasks called create_proposal with id p1; the store holds
\* the first caller's Open proposal and the second call returned Conflict.
C21_SecondCreateRefused ==
    /\ nreq = 2
    /\ DOMAIN proposals = {"p1"}
    /\ proposals["p1"].status = "open"
    /\ "method" \in DOMAIN resp
    /\ resp.method = "create_proposal"
    /\ resp.error = "StoreConflict"

\* C22: the step in which a reset clears the store leaves the node map, the
\* proposal map and the review map empty and the revision counter 0, and the
\* audit log exactly as it was; the steps in which it only takes its locks
\* change none of them.
C22_ResetKeepsAuditLog ==
    [][\A t \in Tasks :
          /\ (pc[t] = "reset_revision" /\ pc'[t] = "idle")
                => /\ nodes' = <<>>
                   /\ proposals' = <<>>
                   /\ reviews' = <<>>
                   /\ revision_counter' = 0
                   /\ audit_log' = audit_log
                   /\ resp'.error = ""
          /\ (pc'[t] \in {"reset_proposals", "reset_reviews", "reset_revision"}
              /\ pc'[t] # pc[t])
                => UNCHANGED <<store_vars, audit_log>>]_vars

\* C22 witness: a reset has returned in a store whose audit log holds the
\* event of an earlier apply; the maps are empty and the counter is 0.
C22_ResetAfterAuditedApply ==
    /\ "method" \in DOMAIN resp
    /\ resp.method = "reset"
    /\ audit_log = <<AuditEvent("proposal_applied", "p1", "success")>>
    /\ nodes = <<>>
    /\ proposals = <<>>
    /\ revision_counter = 0

\* Sequence a is an initial part of sequence b.
IsPrefix(a, b) ==
    /\ Len(a) <= Len(b)
    /\ SubSeq(b, 1, Len(a)) = a

\* The elements of a occur in b in the same order.
RECURSIVE IsSubsequence(_, _)
IsSubsequence(a, b) ==
    IF a = <<>> THEN TRUE
    ELSE IF b = <<>> THEN FALSE
    ELSE IF Head(a) = Head(b) THEN IsSubsequence(Tail(a), Tail(b))
    ELSE IsSubsequence(a, Tail(b))

\* The event passes the filters of the query.
AuditMatches(e, query) ==
    /\ IsSome(query.action) => e.action = Unwrap(query.action)
    /\ IsSome(query.resource_id) => e.resource_id = Unwrap(query.resource_id)

\* C23: every step leaves the audit log an extension of what it was (so the
\* log of any earlier state is a prefix of the log of any later one), and
\* query_audit returns only matching events, in the order of the log, all of
\* them when no offset and no limit is given; a query_audit call returns such
\* a result and leaves the log alone.
C23_AuditAppendOnly ==
    [][/\ IsPrefix(audit_log, audit_log')
       /\ \A query \in AuditQueryInputs :
             LET events == query_audit(audit_log, query) IN
             /\ \A i \in 1..Len(events) : AuditMatches(events[i], query)
             /\ IsSubsequence(events, audit_log)
             /\ (~IsSome(query.limit) /\ ~IsSome(query.offset))
                    => Len(events) =
                          Cardinality({ i \in 1..Len(audit_log) :
                                          AuditMatches(audit_log[i], query) })
       /\ \A t \in Tasks :
             CallReturns(t, "query_audit", "")
                => /\ audit_log' = audit_log
                   /\ \E query \in AuditQueryInputs :
                          resp'.value = query_audit(audit_log, query)]_vars

\* C23 witness: the log holds two different events and a query_audit call
\* returned both, oldest first.
C23_QueryReturnedTwoEvents ==
    /\ Len(audit_log) = 2
    /\ audit_log[1] # audit_log[2]
    /\ "method" \in DOMAIN resp
    /\ resp.method = "query_audit"
    /\ resp.value = audit_log

\* C24: the step in which a create, PATCH, review, apply, withdraw or reset
\* request is rejected (the response has an error status) appends exactly one
\* event to the audit log.  The handlers append nothing before they reject,
\* so this is the one event the request may have recorded.
C24_RejectionAudited ==
    [][resp'.status >= 400
          => /\ Len(audit_log') = Len(audit_log) + 1
             /\ IsPrefix(audit_log, audit_log')]_vars

\* The review list with its elements in the order f gives.
Permuted(rs, f) == [i \in 1..Len(rs) |-> rs[f[i]]]

ReviewOrders(n) ==
    { f \in [1..n -> 1..n] : \A i, j \in 1..n : f[i] = f[j] => i = j }

\* The rule of the claim applies to the proposal.
RuleApplies(rule, proposal) ==
    \/ rule.node_types = {}
    \/ \E i \in 1..Len(proposal.operations) :
          /\ proposal.operations[i].type = "create"
          /\ proposal.operations[i].node.node_type \in rule.node_types

\* The decision the claim gives for a proposal, its reviews and the rules.
ReviewDecision(proposal, rs, rules) ==
    LET accepts == { i \in 1..Len(rs) : rs[i].action = "accept" }
        mins == { rules[i].min :
                  i \in { j \in 1..Len(rules) :
                             /\ rules[j].type = "min_approvals"
                             /\ RuleApplies(rules[j], proposal) } }
        n_needed == CHOOSE m \in mins \cup {1} : \A k \in mins \cup {1} : m >= k
        roles_met ==
            \A i \in 1..Len(rules) :
                (/\ rules[i].type = "required_reviewer_role"
                 /\ RuleApplies(rules[i], proposal))
                    => \E k \in accepts :
                           rs[k].reviewer_role = Some(rules[i].role)
    IN IF \E i \in 1..Len(rs) : rs[i].action = "reject" THEN Some("rejected")
       ELSE IF Cardinality(accepts) >= n_needed /\ roles_met
       THEN Some("accepted")
       ELSE None

\* C25: for the stored proposal p1, its review list in any order and the
\* policy rules, evaluate_on_review returns Rejected when a review rejects;
\* otherwise Accepted exactly when the accept reviews number at least
\* max(1, the largest min of the applicable MinApprovals rules) and every
\* applicable RequiredReviewerRole has an accept review with its role; and
\* None otherwise.  The answer of an evaluation is that decision.
C25_EvaluateOnReview ==
    ("p1" \in DOMAIN proposals /\ "p1" \in DOMAIN reviews)
        => /\ \A f \in ReviewOrders(Len(reviews["p1"])) :
                 evaluate_on_review(proposals["p1"],
                                    Permuted(reviews["p1"], f), policies)
                     = ReviewDecision(proposals["p1"], reviews["p1"], policies)
           /\ ("method" \in DOMAIN resp /\ resp.method = "evaluate_on_review")
                 => resp.value =
                        ReviewDecision(proposals["p1"], reviews["p1"], policies)

\* C25 witness: under MinApprovals 2 and a required lead reviewer, three
\* reviews of which the last two accept (one as lead) were evaluated to
\* Accepted.
C25_AcceptedAfterTwoAccepts ==
    /\ "method" \in DOMAIN resp
    /\ resp.method = "evaluate_on_review"
    /\ resp.value = Some("accepted")
    /\ policies = <<MinApprovalsTwo, RequiredReviewerLead>>
    /\ Len(reviews["p1"]) = 3
    /\ reviews["p1"][1].action = "request-changes"
    /\ reviews["p1"][2].reviewer_role = None
    /\ reviews["p1"][3].reviewer_role = Some("lead")

\* The answer the claim gives for a stored proposal: it has base_versions and
\* some node recorded there exists with a greater version.
StaleByBaseVersions(ps, ns, id) ==
    /\ IsSome(ps[id].base_versions)
    /\ \E key \in DOMAIN Unwrap(ps[id].base_versions) :
          /\ key \in DOMAIN ns
          /\ ns[key].version > Unwrap(ps[id].base_versions)[key]

\* C26: for every stored proposal, is_proposal_stale of the in-memory store
\* and of the file store returns Ok(true) exactly when the proposal has
\* base_versions and some node recorded there exists with a version greater
\* than the recorded one, and Ok(false) otherwise; a call that has returned
\* has given that answer.
C26_StaleIffBaseVersionExceeded ==
    /\ \A id \in DOMAIN proposals :
          LET expected ==
                  [err |-> "", stale |-> StaleByBaseVersions(proposals, nodes, id)]
          IN /\ is_proposal_stale(proposals, nodes, id) = expected
             /\ FileStore_is_proposal_stale(id) = expected
    /\ ("method" \in DOMAIN resp /\ resp.method = "is_proposal_stale"
        /\ "p1" \in DOMAIN proposals)
          => resp.value = StaleByBaseVersions(proposals, nodes, "p1")

\* The node keys the operations of stored proposal p name.
Touched(p) ==
    { OperationKey(proposals[p].operations[i]) :
      i \in 1..Len(proposals[p].operations) }

\* The other Open proposals.
OtherOpen(target) ==
    { q \in DOMAIN proposals \ {target} : proposals[q].status = "open" }

\* The result the claim gives for detect_conflicts(target).
ConflictsOf(target) ==
    LET clash(q) == Touched(target) \cap Touched(q)
        needs == { q \in OtherOpen(target) : clash(q) # {} }
    IN [conflicts |->
            { [proposals |-> <<target, q>>,
               conflicting_nodes |-> clash(q),
               severity |-> IF Cardinality(clash(q)) > 1 THEN "critical"
                            ELSE "node",
               auto_resolvable |-> FALSE] : q \in needs },
        mergeable |-> OtherOpen(target) \ needs,
        needs_resolution |-> needs]

\* C27: for every stored target, detect_conflicts returns one conflict for
\* each other Open proposal q whose touched keys meet the target's, with
\* proposals = [target, q], the intersection as conflicting_nodes, severity
\* critical for more than one key and node otherwise, auto_resolvable false;
\* needs_resolution is the set of these q and mergeable the rest of the other
\* Open proposals, the two being disjoint and covering them.  A call that
\* returned Ok has returned this result for a stored target.
C27_DetectConflicts ==
    /\ \A target \in DOMAIN proposals :
          LET r == detect_conflicts(proposals, target) IN
          /\ r.err = ""
          /\ r.conflicts = ConflictsOf(target).conflicts
          /\ r.needs_resolution = ConflictsOf(target).needs_resolution
          /\ r.mergeable = ConflictsOf(target).mergeable
          /\ Cardinality(r.conflicts) = Cardinality(r.needs_resolution)
          /\ r.mergeable \cap r.needs_resolution = {}
          /\ r.mergeable \cup r.needs_resolution = OtherOpen(target)
    /\ ("method" \in DOMAIN resp /\ resp.method = "detect_conflicts"
        /\ resp.error = "")
          => \E target \in DOMAIN proposals : resp.value = ConflictsOf(target)

\* C27 witness: detect_conflicts returned a critical conflict (two shared
\* keys) with one Open proposal and found another Open proposal mergeable,
\* in a store of three proposals.
C27_CriticalAndMergeable ==
    /\ "method" \in DOMAIN resp
    /\ resp.method = "detect_conflicts"
    /\ resp.error = ""
    /\ DOMAIN proposals = FnProposalIds
    /\ \E c \in resp.value.conflicts :
          c.severity = "critical" /\ Cardinality(c.conflicting_nodes) = 2
    /\ resp.value.mergeable # {}
    /\ resp.value.needs_resolution # {}

\* The positions <<i, j>> of the Update operations of proposals ids that set
\* field of node key: operation j of the i-th proposal.
GroupPositions(ids, key, field) ==
    { ij \in UNION { {i} \X (1..Len(proposals[ids[i]].operations)) :
                     i \in 1..Len(ids) } :
        LET op == proposals[ids[ij[1]]].operations[ij[2]] IN
        /\ op.type = "update"
        /\ node_key(op.node_id) = key
        /\ IF field = "content" THEN IsSome(op.content) ELSE IsSome(op.status) }

\* The values of the group.
GroupValues(ids, key, field) ==
    { LET op == proposals[ids[ij[1]]].operations[ij[2]] IN
      IF field = "content" THEN Unwrap(op.content) ELSE Unwrap(op.status) :
      ij \in GroupPositions(ids, key, field) }

\* Every (node key, field) a stored operation could be about.
MergeFields ==
    { node_key(NodeIdN1), node_key(NodeIdN2) } \X { "content", "status" }

\* The (node key, field) pairs of a result list.
ListFields(list) == { <<c.node_key, c.field>> : c \in list }

\* The result lists of merge_proposals(ids) are as the claim says.
MergeGroups(ids, r) ==
    LET size(f) == Cardinality(GroupPositions(ids, f[1], f[2]))
        distinct(f) == Cardinality(GroupValues(ids, f[1], f[2]))
    IN /\ ListFields(r.auto_merged) = { f \in MergeFields : size(f) = 1 }
       /\ ListFields(r.merged) =
              { f \in MergeFields : size(f) >= 2 /\ distinct(f) = 1 }
       /\ ListFields(r.conflicts) =
              { f \in MergeFields : size(f) >= 2 /\ distinct(f) > 1 }
       /\ Cardinality(r.auto_merged) = Cardinality(ListFields(r.auto_merged))
       /\ Cardinality(r.merged) = Cardinality(ListFields(r.merged))
       /\ Cardinality(r.conflicts) = Cardinality(ListFields(r.conflicts))
       /\ \A c \in r.auto_merged \cup r.merged :
             GroupValues(ids, c.node_key, c.field) = {c.new_value}

\* C28: merge_proposals(ids) returns NotFound when an id is not stored;
\* otherwise it groups the Update operations of the proposals by node key and
\* field (content or status) and puts each group in exactly one list:
\* auto_merged for a single value, merged for two or more equal values,
\* conflicts for diverging values; Create, Delete and StatusChange operations
\* are in no list.  A call that returned has returned this.
C28_MergeGroups ==
    /\ \A ids \in FnMergeInputs :
          LET r == merge_proposals(proposals, ids) IN
          IF \E i \in 1..Len(ids) : ids[i] \notin DOMAIN proposals
          THEN r.err = "StoreNotFound"
          ELSE r.err = "" /\ MergeGroups(ids, r)
    /\ ("method" \in DOMAIN resp /\ resp.method = "merge_proposals")
          => \/ /\ resp.error = "StoreNotFound"
                /\ DOMAIN proposals # FnProposalIds
             \/ /\ resp.error = ""
                /\ \E ids \in FnMergeInputs :
                      /\ \A i \in 1..Len(ids) : ids[i] \in DOMAIN proposals
                      /\ MergeGroups(ids, resp.value)

\* C28 witness: a merge of three stored proposals, one of them with a Delete,
\* returned a merged field (two equal values) and nothing else.
C28_TwoEqualValuesMerged ==
    /\ "method" \in DOMAIN resp
    /\ resp.method = "merge_proposals"
    /\ resp.error = ""
    /\ DOMAIN proposals = FnProposalIds
    /\ \E id \in FnProposalIds : proposals[id].operations = <<OpDeleteN1>>
    /\ resp.value.merged # {}
    /\ resp.value.auto_merged = {}
    /\ resp.value.conflicts = {}

\* C29: every MergeConflictField a merge_proposals call returned carries two
\* different values.
C29_ConflictValuesDiffer ==
    ("method" \in DOMAIN resp /\ resp.method = "merge_proposals"
     /\ resp.error = "")
        => \A c \in resp.value.conflicts :
              c.proposal1_value # c.proposal2_value

\* The actors that are agents.
AgentActors == { a \in ReadActors : a.actor_type = "agent" }

\* The effective sensitivity of a stored node exceeds what agents may read.
AboveAgentMax(node) ==
    sensitivity_rank(IF node.sensitivity = None THEN "internal"
                     ELSE node.sensitivity[1])
        > sensitivity_rank(agent_max_sensitivity(policies))

\* The store of a run that differs in the content of node k only (apply
\* stores the hash of the content with it).
WithContent(k, c) ==
    [nodes EXCEPT ![k].content = c,
                  ![k].content_hash = Some(content_hash(c))]

\* A redacted stub: it says so and has no content and no content hash.
IsStub(body) ==
    /\ "redacted" \in DOMAIN body
    /\ body.redacted
    /\ "content" \notin DOMAIN body
    /\ "content_hash" \notin DOMAIN body
    /\ DOMAIN body.metadata = {"sensitivity"}

\* What GET /nodes/:id answers an agent for each stored node.
GateOnStoredNodes ==
    \A actor \in AgentActors, id \in ReadPathIds \cap DOMAIN nodes :
        LET r == get_node_handler(actor, policies, nodes, id) IN
        /\ r.status = 200
        /\ IF AboveAgentMax(nodes[id])
           THEN /\ IsStub(r.body)
                /\ r.audit = <<AuditEvent("sensitive_read", id, "denied")>>
           ELSE r.body = nodes[id]

\* The answers to an agent are the same in the run where a node above the
\* agents' maximum has another content: GET /nodes/:id answers the same and
\* GET /nodes can answer the same pages.
SameAnswersWithoutContent ==
    \A actor \in AgentActors, k \in DOMAIN nodes, c \in NodeContents :
        AboveAgentMax(nodes[k])
            => /\ \A id \in ReadPathIds :
                     get_node_handler(actor, policies, WithContent(k, c), id)
                         = get_node_handler(actor, policies, nodes, id)
               /\ \A params \in NodeQueryInputs :
                     { query_nodes_handler(actor, policies, list, params) :
                       list \in IterationOrders(WithContent(k, c)) }
                         = { query_nodes_handler(actor, policies, list, params) :
                             list \in IterationOrders(nodes) }

\* This step answers a GET /nodes/:id of an agent for a stored node.
AgentGotNode ==
    /\ nreq' = nreq + 1
    /\ resp'.method = "get_node"
    /\ resp'.actor \in AgentActors
    /\ resp'.status = 200

\* C30: with m = agent_max_sensitivity, a GET /nodes/:id by an agent on a
\* stored node of effective sensitivity s (internal when unset) answers the
\* full node when s <= m, and when s > m a redacted stub without content
\* while the audit log gains a sensitive_read event with outcome denied; two
\* runs that differ only in the content of a node with s > m give the agent
\* the same responses.
C30_SensitivityReadGate ==
    /\ [](GateOnStoredNodes /\ SameAnswersWithoutContent)
    /\ [][AgentGotNode =>
            LET id == resp'.body.id.id IN
            /\ id \in DOMAIN nodes
            /\ IF AboveAgentMax(nodes[id])
               THEN /\ IsStub(resp'.body)
                    /\ audit_log' =
                           Append(audit_log,
                                  AuditEvent("sensitive_read", id, "denied"))
               ELSE resp'.body = nodes[id]]_vars

\* C30 witness: an agent asked for n1, which is restricted while agents may
\* read up to internal, and was answered a stub; the audit log ends with the
\* denied sensitive_read.
C30_AgentGotStub ==
    /\ "method" \in DOMAIN resp
    /\ resp.method = "get_node"
    /\ resp.actor = AgentReader
    /\ resp.status = 200
    /\ policies = <<>>
    /\ <<"n1">> \in DOMAIN nodes
    /\ nodes[<<"n1">>].sensitivity = Some("restricted")
    /\ resp.body.id = NodeIdN1
    /\ IsStub(resp.body)
    /\ audit_log # <<>>
    /\ audit_log[Len(audit_log)] = AuditEvent("sensitive_read", <<"n1">>, "denied")

\* The effective sensitivity of a node as a client sends it.
EffectiveSensitivity(node) ==
    IF node.sensitivity = None THEN "internal" ELSE node.sensitivity[1]

\* The proposal creates a node whose effective sensitivity is above what
\* agents may read under the configured policies.
CreatesAboveAgentMax(proposal) ==
    \E i \in 1..Len(proposal.operations) :
        /\ proposal.operations[i].type = "create"
        /\ sensitivity_rank(EffectiveSensitivity(proposal.operations[i].node))
             > sensitivity_rank(agent_max_sensitivity(policies))

\* C31: a POST /proposals by an agent (holding Contributor) that creates a
\* node whose effective sensitivity, internal when unset, is above the
\* agents' maximum is answered with a policy violation and stores no
\* proposal.
C31_AgentCreateAboveMaxDenied ==
    [][\A actor \in GateActors, proposal \in GateProposalInputs :
          (/\ actor.actor_type = "agent"
           /\ has_role(actor, "contributor")
           /\ CreatesAboveAgentMax(proposal)
           /\ AcceptGate
           /\ CreateProposal(SeqTask, actor, proposal))
              => /\ resp'.error = "PolicyViolation"
                 /\ proposals' = proposals]_vars

\* The step starts a request of actor on the review or the apply endpoint.
ReviewOrApplyBy(actor) ==
    \/ \E id \in ProposalIds, review \in ReviewInputs :
           AcceptGate /\ SubmitReview(SeqTask, actor, id, review)
    \/ \E id \in ProposalIds, clock \in Clock :
           AcceptGate /\ ApplyProposal(SeqTask, actor, id, clock)

\* The step starts a request of actor on one of the other mutating
\* endpoints.
OtherRequestBy(actor) ==
    \/ \E proposal \in GateProposalInputs :
           AcceptGate /\ CreateProposal(SeqTask, actor, proposal)
    \/ \E id \in ProposalIds :
           AcceptGate
           /\ UpdateProposal(SeqTask, actor, id, [status |-> Some("accepted")])
    \/ \E id \in ProposalIds :
           AcceptGate /\ WithdrawProposal(SeqTask, actor, id)
    \/ AcceptGate /\ ResetStore(SeqTask, actor)

\* C32: whatever roles an agent holds and whatever the policies, its review
\* and apply requests are answered 403 in their first step, before any store
\* mutation, and are over; no other request of an agent appends a review,
\* draws a revision or marks a stored proposal applied.
C32_AgentsNeverReviewOrApply ==
    [][\A actor \in GateActors :
          actor.actor_type = "agent"
              => /\ ReviewOrApplyBy(actor)
                    => /\ resp'.status = 403
                       /\ pc'[SeqTask] = "idle"
                       /\ UNCHANGED <<store_vars, audit_log, bus>>
                 /\ OtherRequestBy(actor)
                    => /\ reviews' = reviews \/ reviews' = <<>>
                       /\ revision_counter' <= revision_counter
                       /\ \A p \in DOMAIN proposals \cap DOMAIN proposals' :
                             proposals'[p].status = "applied"
                                 => proposals[p].status = "applied"]_vars

\* C32 witness: an agent holding every role was refused as an agent while
\* the Accepted proposal p1 was waiting to be applied.
C32_AgentRefused ==
    /\ resp.error = "ForbiddenAgent"
    /\ resp.status = 403
    /\ "p1" \in DOMAIN proposals
    /\ proposals["p1"].status = "accepted"
    /\ revision_counter = 0
    /\ nodes = <<>>

\* C33: with policies [AgentRestriction{blocked_actions: ["apply"]}], an
\* agent's POST /proposals/:id/apply for a stored proposal goes on to the
\* policy-violation answer: its first step sends no other answer, and the
\* step that answers sends 422 and appends one policy_evaluated event with
\* outcome policy_violation.
C33_AgentApplyAnswered422 ==
    [][/\ \A actor \in GateActors, id \in DOMAIN proposals, clock \in Clock :
             (/\ actor.actor_type = "agent"
              /\ has_role(actor, "applier")
              /\ policies = <<AgentRestriction({"apply"})>>
              /\ AcceptGate
              /\ ApplyProposal(SeqTask, actor, id, clock))
                 => /\ pc'[SeqTask] = "apply_violation_audit"
                    /\ resp' = NoResp
       /\ ApplyViolationAudit(SeqTask)
             => /\ resp'.status = 422
                /\ audit_log' =
                       Append(audit_log,
                              AuditEvent("policy_evaluated", req[SeqTask].id,
                                         "policy_violation"))]_vars

\* An AgentRestriction rule of the configured policies blocks action.
BlockedForAgents(action) ==
    \E i \in 1..Len(policies) :
        /\ policies[i].type = "agent_restriction"
        /\ action \in policies[i].blocked_actions

\* C34: when an AgentRestriction rule blocks creating, a POST /proposals by
\* an agent (holding Contributor) is answered with a policy violation and
\* changes nothing in the store.
C34_BlockedCreateDenied ==
    [][\A actor \in GateActors, proposal \in GateProposalInputs :
          (/\ actor.actor_type = "agent"
           /\ has_role(actor, "contributor")
           /\ BlockedForAgents("create")
           /\ AcceptGate
           /\ CreateProposal(SeqTask, actor, proposal))
              => /\ resp'.error = "PolicyViolation"
                 /\ UNCHANGED store_vars]_vars

\* The step starts a request of actor on an endpoint whose minimum role is
\* role.
RequestNeeding(actor, role) ==
    \/ /\ role = "contributor"
       /\ \/ \E proposal \in GateProposalInputs :
                 AcceptGate /\ CreateProposal(SeqTask, actor, proposal)
          \/ \E id \in ProposalIds :
                 AcceptGate
                 /\ UpdateProposal(SeqTask, actor, id,
                                   [status |-> Some("accepted")])
          \/ \E id \in ProposalIds :
                 AcceptGate /\ WithdrawProposal(SeqTask, actor, id)
    \/ /\ role = "reviewer"
       /\ \E id \in ProposalIds, review \in ReviewInputs :
              AcceptGate /\ SubmitReview(SeqTask, actor, id, review)
    \/ /\ role = "applier"
       /\ \E id \in ProposalIds, clock \in Clock :
              AcceptGate /\ ApplyProposal(SeqTask, actor, id, clock)
    \/ /\ role = "admin"
       /\ \/ AcceptGate /\ ResetStore(SeqTask, actor)
          \/ AcceptGate /\ QueryAudit(SeqTask, actor)

\* Position of a role in Reader < Contributor < Reviewer < Applier < Admin.
RolePosition(r) ==
    CHOOSE i \in 1..5 :
        <<"reader", "contributor", "reviewer", "applier", "admin">>[i] = r

\* C35: a request by an actor none of whose roles is at or above the
\* endpoint's minimum role (Contributor for create, PATCH and withdraw,
\* Reviewer for review, Applier for apply, Admin for reset and audit) is
\* answered 403 in its first step and is over, and leaves proposals,
\* reviews, nodes and the revision counter unchanged.
C35_RbacGate ==
    [][\A actor \in GateActors,
          role \in {"contributor", "reviewer", "applier", "admin"} :
          (/\ \A r \in actor.roles : RolePosition(r) < RolePosition(role)
           /\ RequestNeeding(actor, role))
              => /\ resp'.status = 403
                 /\ pc'[SeqTask] = "idle"
                 /\ UNCHANGED store_vars]_vars

\* C35 witness: a request was refused for its role while the Accepted
\* proposal p1 was stored and not yet applied.
C35_RoleRefused ==
    /\ resp.error = "Forbidden"
    /\ resp.status = 403
    /\ "p1" \in DOMAIN proposals
    /\ proposals["p1"].status = "accepted"
    /\ "p1" \in DOMAIN reviews
    /\ nodes = <<>>

\* C36: a store error is answered by kind: NotFound 404, Conflict 409,
\* Invalid 400, Internal 500.
C36_StoreErrorStatus ==
    /\ resp.error = "StoreNotFound" => resp.status = 404
    /\ resp.error = "StoreConflict" => resp.status = 409
    /\ resp.error = "StoreInvalid" => resp.status = 400
    /\ resp.error = "StoreInternal" => resp.status = 500

\* The positions of ops in ascending order of the order field, equal
\* orders in list position.
OrderedPositions(ops) ==
    CHOOSE perm \in [1..Len(ops) -> 1..Len(ops)] :
        /\ \A i, j \in 1..Len(ops) : i # j => perm[i] # perm[j]
        /\ \A i, j \in 1..Len(ops) :
              i < j => \/ ops[perm[i]].order < ops[perm[j]].order
                       \/ /\ ops[perm[i]].order = ops[perm[j]].order
                          /\ perm[i] < perm[j]

\* The sequence the claim says the operations execute in.
InOrder(ops) == [i \in 1..Len(ops) |-> ops[OrderedPositions(ops)[i]]]

\* C37: applying a stored proposal executes its operations in ascending
\* order of their order field, equal orders in list position: the in-memory
\* store folds them in that sequence, and so does the file store; an apply
\* that has reached its node section holds that sequence.
C37_AppliedInOrder ==
    /\ \A id \in DOMAIN proposals :
          LET ops == proposals[id].operations IN
          /\ sort_by_key(ops) = InOrder(ops)
          /\ apply_operations(nodes, sort_by_key(ops), "dev-user")
                 = apply_operations(nodes, InOrder(ops), "dev-user")
          /\ FileStore_apply_operations(nodes, ops)
                 = FileStore_apply_operations(nodes, InOrder(ops))
    /\ \A t \in Tasks :
          (pc[t] = "apply_nodes" /\ req[t].id \in DOMAIN proposals)
              => loc[t].sorted_ops = InOrder(proposals[req[t].id].operations)

\* The status patches a caller hands to update_proposal.
StatusPatches ==
    { [status |-> Some(s)] : s \in {"accepted", "withdrawn", "applied"} }

\* C38: on the same stored maps the file store and the in-memory store answer
\* every update_proposal, submit_review and apply_proposal alike: the same
\* result, the same proposals, the same review histories, and for an apply
\* that goes through the same nodes. Both start empty, so equal steps give
\* equal results and equal final states for every sequence of operations.
C38_StoresEquivalent ==
    /\ \A id \in StoreProposalIds : \A updates \in StatusPatches :
           FileStore_update_proposal(proposals, id, updates)
               = update_proposal(proposals, id, updates)
    /\ \A review \in StoreReviewInputs :
           FileStore_submit_review(proposals, reviews, review)
               = submit_review(proposals, reviews, review)
    /\ \A id \in StoreProposalIds :
           LET file == FileStore_apply_proposal(proposals, nodes,
                                                revision_counter, id,
                                                "dev-user")
               mem == IF apply_is_applied(proposals, id) THEN ""
                      ELSE apply_precondition(proposals, id)
           IN /\ file.err = mem
              /\ (mem = "" /\ ~apply_is_applied(proposals, id))
                    => file.nodes =
                         apply_operations(nodes,
                             sort_by_key(proposals[id].operations),
                             "dev-user").nodes

\* The number k of the revision rev_k that the apply of the proposal made.
AppliedToRevision(id) == Unwrap(proposals[id].applied).applied_to_revision_id[2]

\* The nodes after the operations of `first`, then those of `second`, on the
\* store of rev_1.
NodesInRevisionOrder(first, second) ==
    LET after_first ==
            apply_operations(NodesAtRev1,
                             sort_by_key(proposals[first].operations),
                             "dev-user").nodes
    IN apply_operations(after_first,
                        sort_by_key(proposals[second].operations),
                        "dev-user").nodes

\* C39: once two Accepted proposals that touch n1 are both Applied, by calls
\* that may have run concurrently, the nodes are those produced by executing
\* the proposal with the lower applied_to_revision_id first and the one with
\* the higher applied_to_revision_id last.
C39_NodesFollowRevisionOrder ==
    ( /\ {"p1", "p2"} \subseteq DOMAIN proposals
      /\ proposals["p1"].status = "applied"
      /\ proposals["p2"].status = "applied" )
        => nodes = IF AppliedToRevision("p1") < AppliedToRevision("p2")
                   THEN NodesInRevisionOrder("p1", "p2")
                   ELSE NodesInRevisionOrder("p2", "p1")

\* The nodes a query keeps: those whose status the query names, all of them
\* when it names none.
Matching(list, query) ==
    IF IsSome(query.status)
    THEN SelectSeq(list, LAMBDA n : n.status \in Unwrap(query.status))
    ELSE list

\* The page of the matching nodes from offset up to offset + limit: empty
\* when the offset is beyond them.
PageOf(kept, offset, limit) ==
    IF offset >= Len(kept) THEN <<>>
    ELSE SubSeq(kept, offset + 1,
                IF offset + limit < Len(kept) THEN offset + limit
                ELSE Len(kept))

\* C40: on every stored node map, in any iteration order, query_nodes returns
\* Ok for every limit and offset: limit is min(limit, 1000), 50 when absent,
\* the page is the matching nodes from offset up to offset + limit, and
\* has_more is true iff offset + |page| < total; an offset beyond the
\* matching nodes gives an empty page with has_more false, not a failure.
C40_QueryNodesPagination ==
    /\ \A list \in IterationOrders(nodes) : \A query \in NodeQueryInputs :
           LET result == query_nodes(list, query)
               kept == Matching(list, query)
               limit == IF ~IsSome(query.limit) THEN 50
                        ELSE IF Unwrap(query.limit) < 1000
                        THEN Unwrap(query.limit) ELSE 1000
               offset == IF IsSome(query.offset) THEN Unwrap(query.offset)
                         ELSE 0
           IN /\ result.err = ""
              /\ result.limit = limit
              /\ result.total = Len(kept)
              /\ result.nodes = PageOf(kept, offset, limit)
              /\ result.has_more = (offset + Len(result.nodes) < Len(kept))
    /\ resp.method = "query_nodes" => resp.error # "panic"

====
